---- MODULE Spec2Model ----
(***************************************************************************)
(* A model of django-staticsite: the render pipeline (request.py,          *)
(* renderer.py, utils.py) as state machines over strings, paths and a      *)
(* small file system.  Strings are sequences of one-character strings so   *)
(* that splitting, parsing, formatting and path joining are computed, not  *)
(* assumed.                                                                *)
(***************************************************************************)
EXTENDS Integers, Sequences, FiniteSets, TLC

VARIABLES
    call,        \* a call of a pure function: [op, args, done, result]
    cfg,         \* the run: [urls, settings, concurrency]
    main,        \* the calling thread: [pc, i, j, error]
    to_render,   \* get_urls_to_render(): the submitted items, in order
    futures,     \* executor.map's future of every item: [state, renders, error]
    pool,        \* the worker threads: [state, item, k, acc]
    active,      \* the active language of every thread (0 is the caller)
    fs,          \* the output directory: [files, dirs]
    writes,      \* the write_file calls so far: [path, outcome, item, task]
    dispatched,  \* how often each (item, language) was dispatched to the host
    remote       \* the publishing target: [files, calls]

renderVars ==
    <<cfg, main, to_render, futures, pool, active, fs, writes, dispatched, remote>>

vars ==
    <<call, cfg, main, to_render, futures, pool, active, fs, writes, dispatched, remote>>

(***************************************************************************)
(* Bounds of the model.                                                    *)
(***************************************************************************)
MaxStatusLen == 4
MaxElems == 2
MaxUriLen == 3
MaxTemplateLen == 2
MaxRoutes == 2
MaxConcurrency == 2
MaxCalls == 2
MaxRedirects == 2
MaxOldPathLen == 2

(***************************************************************************)
(* Python values used by several functions.                                *)
(***************************************************************************)
\* No publishing target in use.
NoRemote == [files |-> <<>>, calls |-> <<>>]

\* No generation run: the state of the renderer in the specifications that
\* call one function.
RenderIdle ==
    /\ cfg = [urls |-> <<>>, concurrency |-> 0]
    /\ main = [pc |-> "idle", i |-> 1, j |-> 1, error |-> "none"]
    /\ to_render = <<>>
    /\ futures = <<>>
    /\ pool = <<>>
    /\ active = <<>>
    /\ fs = [files |-> <<>>, dirs |-> {}]
    /\ writes = <<>>
    /\ dispatched = <<>>
    /\ remote = NoRemote

\* The result field of a call that has not run yet.
NoResult == [outcome |-> "pending"]

\* The longest prefix of s that holds no sep: str.split(sep, 1)[0].
RECURSIVE SplitFirst(_, _)
SplitFirst(s, sep) ==
    IF s = <<>> \/ Head(s) = sep THEN <<>>
    ELSE <<Head(s)>> \o SplitFirst(Tail(s), sep)

DigitChars == {"0", "2", "4", "5"}

DigitValue(c) == CASE c = "0" -> 0 [] c = "2" -> 2 [] c = "4" -> 4 [] c = "5" -> 5

\* int(token) for a token over the model's alphabet: ok = FALSE is ValueError.
RECURSIVE DecimalValue(_, _)
DecimalValue(tok, acc) ==
    IF tok = <<>> THEN acc
    ELSE DecimalValue(Tail(tok), 10 * acc + DigitValue(Head(tok)))

PyInt(tok) ==
    IF tok = <<>> \/ \E i \in 1..Len(tok) : tok[i] \notin DigitChars
    THEN [ok |-> FALSE, value |-> 0]
    ELSE [ok |-> TRUE, value |-> DecimalValue(tok, 0)]

(***************************************************************************)
(* Status validation: apps.py registers a route's staticsite_status_codes, *)
(* renderer.render_uri checks the dispatcher's status line against them.   *)
(***************************************************************************)
StatusChars == {"2", "0", "4", " ", "K"}

StatusLines == UNION {[1..n -> StatusChars] : n \in 0..MaxStatusLen}

CodeValues == {200, 404}

\* What a caller of path()/re_path() may pass as staticsite_status_codes:
\* None, or an iterable of ints (a tuple, a list, a set).
StatusCodeArgs ==
    {[kind |-> "none", codes |-> {}]}
    \cup [kind : {"tuple", "list", "set"}, codes : SUBSET CodeValues]

\* _staticsite_path: a falsy argument becomes (200,); the all-ints check
\* passes for every StatusCodeArgs; the object itself is stored on the pattern.
RegisterStatusCodes(arg) ==
    IF arg.kind = "none" \/ arg.codes = {}
    THEN [kind |-> "tuple", codes |-> {200}]
    ELSE arg

\* internal_wsgi_request's status check: one start_response call, or an error.
SingleStatus(nstatus) == nstatus = 1

render_uri(uri, status_codes, nstatus, status) ==
    LET codes == IF status_codes.kind \notin {"tuple", "list"}
                 THEN {200}
                 ELSE status_codes.codes
        parsed == PyInt(SplitFirst(status, " "))
    IN  IF ~SingleStatus(nstatus)
        THEN [outcome |-> "StaticSiteError", status_code |-> 0,
              uri |-> uri, status |-> status]
        ELSE IF ~parsed.ok
        THEN [outcome |-> "StaticSiteRenderError", status_code |-> 0,
              uri |-> uri, status |-> status]
        ELSE IF parsed.value \notin codes
        THEN [outcome |-> "StaticSiteRenderError", status_code |-> 0,
              uri |-> uri, status |-> status]
        ELSE [outcome |-> "ok", status_code |-> parsed.value,
              uri |-> uri, status |-> status]

StatusUris == {<<"/", "a">>, <<"/", "b">>}

\* A registered route, a URI and the dispatcher's answer to it.
InitStatus ==
    /\ RenderIdle
    /\ \E uri \in StatusUris, arg \in StatusCodeArgs,
       nstatus \in 0..2, status \in StatusLines :
       call = [op |-> "render_uri",
               args |-> [uri |-> uri, arg |-> arg,
                         nstatus |-> nstatus, status |-> status],
               done |-> FALSE, result |-> NoResult]

\* The call of render_uri on the route's registered status codes.
CallRenderUri ==
    /\ call.op = "render_uri" /\ ~call.done
    /\ call' = [call EXCEPT
                  !.done = TRUE,
                  !.result = render_uri(call.args.uri,
                                        RegisterStatusCodes(call.args.arg),
                                        call.args.nstatus, call.args.status)]
    /\ UNCHANGED renderVars

NextStatus == CallRenderUri

SpecStatus == InitStatus /\ [][NextStatus]_vars

\* The accepted status codes of a route as its registration states them.
RegisteredCodes(arg) ==
    IF arg.kind = "none" \/ arg.codes = {} THEN {200} ELSE arg.codes

\* C1: render_uri succeeds iff the leading integer of the single status line
\* parses and is a member of the route's registered accepted status codes;
\* in every other case it raises StaticSiteRenderError naming URI and status.
C1_StatusIffRegistered ==
    (call.op = "render_uri" /\ call.done /\ call.args.nstatus = 1) =>
        LET parsed == PyInt(SplitFirst(call.args.status, " "))
            accept == parsed.ok /\ parsed.value \in RegisteredCodes(call.args.arg)
        IN  /\ (call.result.outcome = "ok") <=> accept
            /\ accept => call.result.status_code = parsed.value
            /\ ~accept => /\ call.result.outcome = "StaticSiteRenderError"
                          /\ call.result.uri = call.args.uri
                          /\ call.result.status = call.args.status

(***************************************************************************)
(* Parameter expansion: request.get_uri_values normalises what a route's   *)
(* staticsite_urls_generator returns.                                      *)
(***************************************************************************)
\* One parameter set as a generator may yield it: None, a str, a tuple or
\* list of strings, or a dict (a sequence of <<key, value>> pairs).
ParamValue(type, chars, args, kwargs) ==
    [type |-> type, chars |-> chars, args |-> args, kwargs |-> kwargs]

PNone == ParamValue("NoneType", <<>>, <<>>, <<>>)
PStr(chars) == ParamValue("str", chars, <<>>, <<>>)
PTuple(args) == ParamValue("tuple", <<>>, args, <<>>)
PList(args) == ParamValue("list", <<>>, args, <<>>)
PDict(kwargs) == ParamValue("dict", <<>>, <<>>, kwargs)

ParamValues ==
    {PNone, PStr(<<>>), PStr(<<"1">>), PTuple(<<>>), PTuple(<<<<"1">>>>),
     PList(<<<<"2">>>>), PDict(<<>>), PDict(<<<<"param", <<"1">>>>>>)}

\* What a generator callback may return: [type, num, chars, elems].
PyValue(type, num, chars, elems) ==
    [type |-> type, num |-> num, chars |-> chars, elems |-> elems]

ElemSeqs == UNION {[1..n -> ParamValues] : n \in 0..MaxElems}

GeneratorReturns ==
    {PyValue("NoneType", 0, <<>>, <<>>), PyValue("object", 0, <<>>, <<>>)}
    \cup {PyValue(t, 0, <<>>, e) :
            t \in {"tuple", "list", "generator", "set", "dict"}, e \in ElemSeqs}
    \cup {PyValue("int", n, <<>>, <<>>) : n \in 0..1}
    \cup {PyValue(t, 0, c, <<>>) : t \in {"str", "bytes"}, c \in {<<>>, <<"a">>}}

\* bool(v) of Python.
Truthy(v) ==
    CASE v.type = "NoneType" -> FALSE
      [] v.type = "int" -> v.num # 0
      [] v.type \in {"str", "bytes"} -> v.chars # <<>>
      [] v.type \in {"tuple", "list", "set", "dict"} -> v.elems # <<>>
      [] OTHER -> TRUE

\* The mutant of get_uri_values: a bare string is taken as a list holding it.
get_uri_values_ScalarAsList(raises, v) ==
    IF raises THEN [outcome |-> "StaticSiteError", value |-> v]
    ELSE IF ~Truthy(v)
    THEN [outcome |-> "ok", value |-> PyValue("tuple", 0, <<>>, <<PNone>>)]
    ELSE IF v.type \in {"list", "tuple"}
    THEN [outcome |-> "ok", value |-> v]
    ELSE IF v.type \in {"generator", "str"}
    THEN [outcome |-> "ok",
          value |-> PyValue("list", 0, <<>>,
                            IF v.type = "str" THEN <<PStr(v.chars)>> ELSE v.elems)]
    ELSE [outcome |-> "StaticSiteError", value |-> v]

\* get_uri_values(func, view_name); raises: func itself raised.
get_uri_values(raises, v) ==
    IF raises THEN [outcome |-> "StaticSiteError", value |-> v]
    ELSE IF ~Truthy(v)
    THEN [outcome |-> "ok", value |-> PyValue("tuple", 0, <<>>, <<PNone>>)]
    ELSE IF v.type \in {"list", "tuple"}
    THEN [outcome |-> "ok", value |-> v]
    ELSE IF v.type = "generator"
    THEN [outcome |-> "ok", value |-> PyValue("list", 0, <<>>, v.elems)]
    ELSE [outcome |-> "StaticSiteError", value |-> v]

\* bool(param_set) for one yielded parameter set.
ParamTruthy(p) ==
    CASE p.type = "NoneType" -> FALSE
      [] p.type = "str" -> p.chars # <<>>
      [] p.type \in {"tuple", "list"} -> p.args # <<>>
      [] OTHER -> p.kwargs # <<>>

\* get_urls_to_render's normalisation of one parameter set.
NormaliseParamSet(p) ==
    IF ~ParamTruthy(p) THEN PTuple(<<>>)
    ELSE IF p.type = "str" THEN PTuple(<<p.chars>>)
    ELSE p

\* The parameter sets get_urls_to_render derives for one route.
ExpandParams(raises, v) ==
    LET got == get_uri_values(raises, v)
    IN  IF got.outcome # "ok"
        THEN [outcome |-> got.outcome, param_sets |-> <<>>]
        ELSE [outcome |-> "ok",
              param_sets |-> [i \in 1..Len(got.value.elems) |->
                                NormaliseParamSet(got.value.elems[i])]]

\* A generator callback: whether it raises, and what it returns.
InitParams ==
    /\ RenderIdle
    /\ \E raises \in BOOLEAN, v \in GeneratorReturns :
        call = [op |-> "get_uri_values",
                args |-> [raises |-> raises, v |-> v],
                done |-> FALSE, result |-> NoResult, expanded |-> NoResult]

\* One call of get_uri_values, continued by get_urls_to_render's loop.
CallGetUriValues ==
    /\ call.op = "get_uri_values" /\ ~call.done
    /\ call' = [call EXCEPT
                  !.done = TRUE,
                  !.result = get_uri_values(call.args.raises, call.args.v),
                  !.expanded = ExpandParams(call.args.raises, call.args.v)]
    /\ UNCHANGED renderVars

NextParams == CallGetUriValues

SpecParams == InitParams /\ [][NextParams]_vars

\* C10: for every non-string return shape: None or an empty tuple/list
\* gives exactly the one empty parameter set; a list or tuple is returned
\* as-is; a generator is drained into a list in order; any other type (int,
\* bytes, set, mapping, object) fails with a StaticSite error.
C10_ExpansionMatchesRules ==
    (call.op = "get_uri_values" /\ call.done /\ ~call.args.raises
        /\ call.args.v.type # "str") =>
        LET v == call.args.v
            r == call.result
        IN  /\ (v.type = "NoneType"
                  \/ (v.type \in {"tuple", "list"} /\ v.elems = <<>>)) =>
                    /\ r.outcome = "ok"
                    /\ call.expanded.param_sets = <<PTuple(<<>>)>>
            /\ (v.type \in {"tuple", "list"} /\ v.elems # <<>>) =>
                    (r.outcome = "ok" /\ r.value = v)
            /\ v.type = "generator" =>
                    /\ r.outcome = "ok"
                    /\ r.value = PyValue("list", 0, <<>>, v.elems)
            /\ v.type \in {"int", "bytes", "set", "dict", "object"} =>
                    r.outcome = "StaticSiteError"

\* C11 as stated: a bare scalar string returned by the generator expands,
\* without failure, to exactly one parameter set made of that string.
C11_ScalarStringExpands ==
    (call.op = "get_uri_values" /\ call.done /\ ~call.args.raises
        /\ call.args.v.type = "str" /\ call.args.v.chars # <<>>) =>
        /\ call.result.outcome = "ok"
        /\ call.expanded.param_sets = <<PTuple(<<call.args.v.chars>>)>>

\* C11, amended: a bare non-empty string returned by the generator makes the
\* expansion fail with a StaticSite error; a non-empty string that is an
\* element of a returned list, tuple or generator becomes exactly one
\* parameter set made of that string, at the element's position.
C11_StringElementExpands ==
    (call.op = "get_uri_values" /\ call.done /\ ~call.args.raises) =>
        LET v == call.args.v
        IN  /\ (v.type = "str" /\ v.chars # <<>>) =>
                  /\ call.result.outcome = "StaticSiteError"
                  /\ call.expanded.param_sets = <<>>
            /\ (v.type \in {"list", "tuple", "generator"} /\ v.elems # <<>>) =>
                  /\ call.expanded.outcome = "ok"
                  /\ Len(call.expanded.param_sets) = Len(v.elems)
                  /\ \A i \in 1..Len(v.elems) :
                        (v.elems[i].type = "str" /\ v.elems[i].chars # <<>>) =>
                            call.expanded.param_sets[i] = PTuple(<<v.elems[i].chars>>)

\* A generator returned a bare non-empty string and the expansion failed.
C11_Witness ==
    /\ call.op = "get_uri_values" /\ call.done /\ ~call.args.raises
    /\ call.args.v.type = "str" /\ call.args.v.chars # <<>>
    /\ call.result.outcome = "StaticSiteError"

(***************************************************************************)
(* Output paths: request.generate_filename and request.get_static_filepath.*)
(* A string is a sequence of atoms: "/" or a piece of text without "/".    *)
(* A path is pathlib's view of it: an anchor and the sequence of parts.    *)
(***************************************************************************)
\* None, or a str: staticsite_filename, generate_filename's result.
OptStr(isNone, chars) == [isNone |-> isNone, chars |-> chars]

NoneStr == OptStr(TRUE, <<>>)

\* The output directory handed to the renderer, an existing directory.
output_dir == [anchor |-> "out", parts |-> <<>>]

os_sep == "/"

\* str.replace(old, new) for single atoms.
Replace(s, old, new) == [i \in 1..Len(s) |-> IF s[i] = old THEN new ELSE s[i]]

\* The parts pathlib parses out of a string: the runs of atoms between
\* separators, empty runs dropped.
RECURSIVE PathParts(_, _)
PathParts(s, cur) ==
    IF s = <<>> THEN (IF cur = <<>> THEN <<>> ELSE <<cur>>)
    ELSE IF Head(s) = os_sep
    THEN (IF cur = <<>> THEN <<>> ELSE <<cur>>) \o PathParts(Tail(s), <<>>)
    ELSE PathParts(Tail(s), cur \o <<Head(s)>>)

\* pathlib's `path / s`: an absolute s replaces path, a relative s extends it.
JoinPath(path, s) ==
    IF s # <<>> /\ Head(s) = os_sep
    THEN [anchor |-> "/", parts |-> PathParts(s, <<>>)]
    ELSE [anchor |-> path.anchor, parts |-> path.parts \o PathParts(s, <<>>)]

\* The mutant of Format: a placeholder without a value is kept as it is.
RECURSIVE Format_KeepUnmatched(_, _, _)
Format_KeepUnmatched(tpl, args, kwargs) ==
    IF tpl = <<>> THEN [outcome |-> "ok", chars |-> <<>>]
    ELSE LET matched ==
                 IF Head(tpl) = "{}" THEN args # <<>>
                 ELSE Head(tpl) = "{param}"
                         /\ \E i \in 1..Len(kwargs) : kwargs[i][1] = "param"
             rest == Format_KeepUnmatched(Tail(tpl),
                                          IF Head(tpl) = "{}" /\ args # <<>>
                                          THEN Tail(args) ELSE args,
                                          kwargs)
         IN  [outcome |-> "ok",
              chars |-> (IF ~matched THEN <<Head(tpl)>>
                         ELSE IF Head(tpl) = "{}" THEN Head(args)
                         ELSE kwargs[CHOOSE j \in 1..Len(kwargs) :
                                        kwargs[j][1] = "param"][2])
                        \o rest.chars]

\* str.format(*args) / str.format(**kwargs) over the atoms "{}" and "{param}".
RECURSIVE Format(_, _, _)
Format(tpl, args, kwargs) ==
    IF tpl = <<>> THEN [outcome |-> "ok", chars |-> <<>>]
    ELSE IF Head(tpl) = "{}"
    THEN IF args = <<>> THEN [outcome |-> "IndexError", chars |-> <<>>]
         ELSE LET rest == Format(Tail(tpl), Tail(args), kwargs)
              IN  [outcome |-> rest.outcome, chars |-> Head(args) \o rest.chars]
    ELSE IF Head(tpl) = "{param}"
    THEN IF \A i \in 1..Len(kwargs) : kwargs[i][1] # "param"
         THEN [outcome |-> "KeyError", chars |-> <<>>]
         ELSE LET i == CHOOSE j \in 1..Len(kwargs) : kwargs[j][1] = "param"
                  rest == Format(Tail(tpl), args, kwargs)
              IN  [outcome |-> rest.outcome, chars |-> kwargs[i][2] \o rest.chars]
    ELSE LET rest == Format(Tail(tpl), args, kwargs)
         IN  [outcome |-> rest.outcome, chars |-> <<Head(tpl)>> \o rest.chars]

\* generate_filename(file_name, uri, param_set): [outcome, name].
generate_filename(file_name, uri, param_set) ==
    IF ~file_name.isNone
    THEN LET f == IF param_set.type = "dict"
                  THEN Format(file_name.chars, <<>>, param_set.kwargs)
                  ELSE Format(file_name.chars, param_set.args, <<>>)
         IN  [outcome |-> f.outcome, name |-> OptStr(FALSE, f.chars)]
    ELSE IF uri # <<>> /\ uri[Len(uri)] = "/"
    THEN [outcome |-> "ok",
          name |-> OptStr(FALSE, (IF Head(uri) = "/" THEN Tail(uri) ELSE uri)
                                    \o <<"index.html">>)]
    ELSE [outcome |-> "ok", name |-> NoneStr]

\* get_static_filepath(output_dir, file_name, page_uri): the full path.
get_static_filepath(dir, file_name, page_uri) ==
    IF ~file_name.isNone /\ file_name.chars # <<>>
    THEN JoinPath(dir, file_name.chars)
    ELSE LET stripped == IF page_uri # <<>> /\ Head(page_uri) = "/"
                         THEN Tail(page_uri) ELSE page_uri
         IN  JoinPath(dir, Replace(stripped, "/", os_sep))

UriChars == {"/", "a", "b"}

\* The URIs reverse() can produce: they start with one "/", never with "//".
Uris ==
    {u \in UNION {[1..n -> UriChars] : n \in 1..MaxUriLen} :
        /\ u[1] = "/"
        /\ Len(u) > 1 => u[2] # "/"}

TemplateChars == {"/", "x", "{}", "{param}"}

Templates ==
    {NoneStr} \cup
    {OptStr(FALSE, t) : t \in UNION {[1..n -> TemplateChars] : n \in 0..MaxTemplateLen}}

\* The normalised parameter sets a render is called with.
RenderParamSets ==
    {PTuple(<<>>), PTuple(<<<<"1">>>>), PDict(<<<<"param", <<"1">>>>>>)}

\* One output path computation, as render_pattern and render_to_directory
\* chain the two functions.
CallFilepath ==
    /\ call.op = "filepath" /\ ~call.done
    /\ LET g == generate_filename(call.args.file_name, call.args.uri,
                                  call.args.param_set)
       IN  call' = [call EXCEPT
                      !.done = TRUE,
                      !.result = [outcome |-> g.outcome,
                                  path |-> IF g.outcome = "ok"
                                           THEN get_static_filepath(
                                                    output_dir, g.name, call.args.uri)
                                           ELSE output_dir]]
    /\ UNCHANGED renderVars

\* A route's filename template, a generated URI and its parameter set.
InitPath ==
    /\ RenderIdle
    /\ \E file_name \in Templates, uri \in Uris, param_set \in RenderParamSets :
        call = [op |-> "filepath",
                args |-> [file_name |-> file_name, uri |-> uri,
                          param_set |-> param_set],
                done |-> FALSE, result |-> NoResult]

NextPath == CallFilepath

SpecPath == InitPath /\ [][NextPath]_vars

StrictlyBelow(path, dir) ==
    /\ path.anchor = dir.anchor
    /\ Len(path.parts) > Len(dir.parts)
    /\ SubSeq(path.parts, 1, Len(dir.parts)) = dir.parts

\* C2: the output path is (1) root / substituted template if a template is
\* present, (2) else root / URI-without-leading-slash + index.html if the
\* URI ends in "/", (3) else root / URI-without-leading-slash; and it is
\* always strictly below the output root.
C2_PathRule ==
    (call.op = "filepath" /\ call.done /\ call.result.outcome = "ok") =>
        LET a == call.args
            args == IF a.param_set.type = "dict" THEN <<>> ELSE a.param_set.args
            kwargs == IF a.param_set.type = "dict" THEN a.param_set.kwargs ELSE <<>>
            path == call.result.path
        IN  /\ ~a.file_name.isNone =>
                  path = JoinPath(output_dir, Format(a.file_name.chars, args, kwargs).chars)
            /\ (a.file_name.isNone /\ a.uri[Len(a.uri)] = "/") =>
                  path = JoinPath(output_dir, Tail(a.uri) \o <<"index.html">>)
            /\ (a.file_name.isNone /\ a.uri[Len(a.uri)] # "/") =>
                  path = JoinPath(output_dir, Tail(a.uri))
            /\ StrictlyBelow(path, output_dir)

\* How often the atom occurs in the template.
RECURSIVE Count(_, _)
Count(tpl, atom) ==
    IF tpl = <<>> THEN 0
    ELSE (IF Head(tpl) = atom THEN 1 ELSE 0) + Count(Tail(tpl), atom)

\* The template with every placeholder filled: "{}" by the next positional
\* value, "{param}" by the named value.
RECURSIVE Filled(_, _, _)
Filled(tpl, args, value) ==
    IF tpl = <<>> THEN <<>>
    ELSE IF Head(tpl) = "{}" THEN Head(args) \o Filled(Tail(tpl), Tail(args), value)
    ELSE IF Head(tpl) = "{param}" THEN value \o Filled(Tail(tpl), args, value)
    ELSE <<Head(tpl)>> \o Filled(Tail(tpl), args, value)

\* C13: a template whose placeholders are all positional resolves, with a
\* tuple or list that has a value for each, to the template with the values
\* in order; one whose placeholders are all named resolves with a mapping
\* that has the names; a positional template with a mapping, or a named
\* template with a positional set, fails at render time and gives no file
\* name at all.
C13_TemplateShape ==
    (call.op = "filepath" /\ call.done /\ ~call.args.file_name.isNone) =>
        LET tpl == call.args.file_name.chars
            ps == call.args.param_set
            pos == Count(tpl, "{}")
            nam == Count(tpl, "{param}")
        IN  /\ (ps.type # "dict" /\ nam = 0 /\ pos >= 1 /\ Len(ps.args) >= pos) =>
                  /\ call.result.outcome = "ok"
                  /\ call.result.path
                        = JoinPath(output_dir, Filled(tpl, ps.args, <<>>))
            /\ (ps.type = "dict" /\ pos = 0 /\ nam >= 1) =>
                  /\ call.result.outcome = "ok"
                  /\ call.result.path
                        = JoinPath(output_dir, Filled(tpl, <<>>, ps.kwargs[1][2]))
            /\ ((ps.type = "dict" /\ pos >= 1) \/ (ps.type # "dict" /\ nam >= 1)) =>
                  /\ call.result.outcome \in {"IndexError", "KeyError"}
                  /\ call.result.path = output_dir

\* A positional template was rendered with a mapping, and failed.
C13_Witness ==
    /\ call.op = "filepath" /\ call.done /\ ~call.args.file_name.isNone
    /\ call.args.param_set.type = "dict"
    /\ Count(call.args.file_name.chars, "{}") >= 1
    /\ call.result.outcome = "IndexError"

(***************************************************************************)
(* The host application: its URL configuration, its settings and what its  *)
(* views answer.  Django's reverse() and the active language of a thread   *)
(* are modelled by what generate_uri and render_pattern use of them.       *)
(***************************************************************************)
LangCodes == {"en", "fr"}

\* The active language of a thread on which activate() was never called.
NoLang == "default"

LANGUAGE_CODE == "en"

\* get_language() on a thread whose active language is lang.
EffectiveLang(lang) == IF lang = NoLang THEN LANGUAGE_CODE ELSE lang

Status200 == <<"2", "0", "0", " ", "K">>
Status500 == <<"5", "0", "0", " ", "K">>

\* A route as path()/re_path() registers it with staticsite_path=True.
RouteRecord(name, namespace, i18n, pattern, slots, filename, generator, status) ==
    [name |-> name, staticsite_namespace |-> namespace, i18n |-> i18n,
     pattern |-> pattern, slots |-> slots,
     staticsite_filename |-> filename,
     staticsite_status_codes |-> RegisterStatusCodes([kind |-> "none", codes |-> {}]),
     staticsite_urls_generator |-> generator,
     view_status |-> status]

GenNone == [raises |-> FALSE, v |-> PyValue("NoneType", 0, <<>>, <<>>)]

GenTwo == [raises |-> FALSE,
           v |-> PyValue("tuple", 0, <<>>, <<PStr(<<"b">>), PStr(<<"c">>)>>)]

RouteNames == {"a", "ap", "i", "broken"}

\* The registered static routes (after tests/urls.py): a route without
\* parameters, a positional-parameter route whose URIs lie below the first
\* one's URI, a route under i18n_patterns in a namespace, and a route whose
\* view fails.
Routes ==
    [n \in RouteNames |->
        CASE n = "a" -> RouteRecord(n, "", FALSE, <<"/", "a">>, 0,
                                    NoneStr, GenNone, Status200)
          [] n = "ap" -> RouteRecord(n, "", FALSE, <<"/", "a", "/", "<>">>, 1,
                                     NoneStr, GenTwo, Status200)
          [] n = "i" -> RouteRecord(n, "test_i18n", TRUE, <<"/", "i">>, 0,
                                    NoneStr, GenNone, Status200)
          [] n = "broken" -> RouteRecord(n, "", FALSE, <<"/", "x">>, 0,
                                         NoneStr, GenNone, Status500)]

\* The pattern with its parameter slots filled in order.
RECURSIVE Subst(_, _)
Subst(pattern, values) ==
    IF pattern = <<>> THEN <<>>
    ELSE IF Head(pattern) = "<>"
    THEN Head(values) \o Subst(Tail(pattern), Tail(values))
    ELSE <<Head(pattern)>> \o Subst(Tail(pattern), values)

\* The names the host's URL resolver knows: the static routes and a route
\* named like the first one inside an included, namespaced URL module.
ResolverNames == RouteNames \cup {"na"}

Resolver ==
    [n \in ResolverNames |->
        IF n \in RouteNames
        THEN [name |-> Routes[n].name, namespace |-> Routes[n].staticsite_namespace,
              i18n |-> Routes[n].i18n, pattern |-> Routes[n].pattern,
              slots |-> Routes[n].slots]
        ELSE [name |-> "a", namespace |-> "test_namespace", i18n |-> FALSE,
              pattern |-> <<"/", "n", "/", "a">>, slots |-> 0]]

\* django.urls.reverse(view_name, args=..) / (view_name, kwargs=..) on a
\* thread whose active language is lang: [outcome, uri].  Every parameter
\* slot of the patterns is the named group <param>; args fill the slots in
\* order, kwargs must name them.
reverse(ns, name, param_set, lang) ==
    LET found == {n \in ResolverNames :
                    Resolver[n].name = name /\ Resolver[n].namespace = ns}
        values == IF param_set.type = "dict"
                  THEN [i \in 1..Len(param_set.kwargs) |-> param_set.kwargs[i][2]]
                  ELSE param_set.args
        named == param_set.type # "dict"
                    \/ \A i \in 1..Len(param_set.kwargs) :
                          param_set.kwargs[i][1] = "param"
    IN  IF found = {} THEN [outcome |-> "NoReverseMatch", uri |-> <<>>]
        ELSE LET r == Resolver[CHOOSE n \in found : TRUE]
             IN  IF Len(values) # r.slots \/ ~named
                 THEN [outcome |-> "NoReverseMatch", uri |-> <<>>]
                 ELSE [outcome |-> "ok",
                       uri |-> (IF r.i18n THEN <<"/", EffectiveLang(lang)>> ELSE <<>>)
                                 \o Subst(r.pattern, values)]

\* The mutant of generate_uri: the namespace-qualified name first, then the
\* bare name.
generate_uri_QualifiedFirst(namespace, view_name, param_set, lang) ==
    IF param_set.type \notin {"NoneType", "list", "tuple", "dict"}
    THEN [outcome |-> "StaticSiteError", uri |-> <<>>]
    ELSE LET ps == IF param_set.type = "NoneType" THEN PTuple(<<>>) ELSE param_set
             qualified == reverse(namespace, view_name, ps, lang)
         IN  IF qualified.outcome = "ok" THEN qualified
             ELSE reverse("", view_name, ps, lang)

\* generate_uri(namespace, view_name, param_set): the bare name first, then
\* the namespace-qualified name; namespace "" stands for None.
generate_uri(namespace, view_name, param_set, lang) ==
    IF param_set.type \notin {"NoneType", "list", "tuple", "dict"}
    THEN [outcome |-> "StaticSiteError", uri |-> <<>>]
    ELSE LET ps == IF param_set.type = "NoneType" THEN PTuple(<<>>) ELSE param_set
             bare == reverse("", view_name, ps, lang)
         IN  IF bare.outcome = "ok" THEN bare
             ELSE reverse(namespace, view_name, ps, lang)

\* The arguments generate_uri is called with.
UriParamSets ==
    {PNone, PStr(<<"b">>), PTuple(<<>>), PTuple(<<<<"b">>>>), PList(<<<<"b">>>>),
     PDict(<<<<"param", <<"b">>>>>>), PDict(<<<<"other", <<"b">>>>>>)}

UriNamespaces == {"", "test_namespace", "test_i18n"}

UriViewNames == {Resolver[n].name : n \in ResolverNames} \cup {"missing"}

InitUri ==
    /\ RenderIdle
    /\ \E namespace \in UriNamespaces, view_name \in UriViewNames,
          param_set \in UriParamSets, lang \in {NoLang} \cup LangCodes :
        call = [op |-> "generate_uri",
                args |-> [namespace |-> namespace, view_name |-> view_name,
                          param_set |-> param_set, lang |-> lang],
                done |-> FALSE, result |-> NoResult]

\* One call of generate_uri.
CallGenerateUri ==
    /\ call.op = "generate_uri" /\ ~call.done
    /\ call' = [call EXCEPT
                  !.done = TRUE,
                  !.result = generate_uri(call.args.namespace, call.args.view_name,
                                          call.args.param_set, call.args.lang)]
    /\ UNCHANGED renderVars

NextUri == CallGenerateUri

SpecUri == InitUri /\ [][NextUri]_vars

\* What reverse() gives for the call's parameter set under a namespace: a
\* positional set as args, a mapping as kwargs, None as no arguments.
ResolvedUnder(ns) ==
    reverse(ns, call.args.view_name,
            IF call.args.param_set.type = "NoneType" THEN PTuple(<<>>)
            ELSE call.args.param_set,
            call.args.lang)

\* C12: generate_uri gives the resolution of the bare route name whenever
\* that resolves for the parameter set, the resolution of the
\* namespace-qualified name only when the bare name does not resolve, and
\* no URI but the resolver's failure when neither resolves; a mapping only
\* resolves through its keys, a positional set through its positions.
C12_BareNameFirst ==
    (call.op = "generate_uri" /\ call.done
        /\ call.args.param_set.type \in {"NoneType", "list", "tuple", "dict"}) =>
        /\ ResolvedUnder("").outcome = "ok" => call.result = ResolvedUnder("")
        /\ (ResolvedUnder("").outcome # "ok"
              /\ ResolvedUnder(call.args.namespace).outcome = "ok") =>
                call.result = ResolvedUnder(call.args.namespace)
        /\ (ResolvedUnder("").outcome # "ok"
              /\ ResolvedUnder(call.args.namespace).outcome # "ok") =>
                call.result = [outcome |-> "NoReverseMatch", uri |-> <<>>]
        /\ (call.args.param_set.type = "dict"
              /\ call.args.param_set.kwargs[1][1] # "param") =>
                call.result.outcome = "NoReverseMatch"

\* A name that resolves both bare and under the given namespace, to two
\* URIs, was resolved to the bare name's URI.
C12_Witness ==
    /\ call.op = "generate_uri" /\ call.done
    /\ call.args.namespace # ""
    /\ ResolvedUnder("").outcome = "ok"
    /\ ResolvedUnder(call.args.namespace).outcome = "ok"
    /\ ResolvedUnder("").uri # ResolvedUnder(call.args.namespace).uri
    /\ call.result.uri = ResolvedUnder("").uri

\* internal_wsgi_request(path=uri, method="GET") on a thread whose active
\* language is lang: the view's status line and a body that depends on the
\* URI and on the language the view is rendered in.
internal_wsgi_request(route, uri, lang) ==
    [nstatus |-> 1, status |-> route.view_status,
     body |-> [uri |-> uri, lang |-> EffectiveLang(lang)]]

\* render_pattern's return value or exception, from the results of its
\* calls: generate_uri, internal_wsgi_request, render_uri, generate_filename.
RenderRecord(route, param_set, language_code, lang, gen, resp, rendered, fname) ==
    [route |-> route.name, param_set |-> param_set,
     language_code |-> language_code,
     uri_lang |-> EffectiveLang(lang),
     generated_uri |-> gen.uri, body |-> resp.body,
     generated_filename |->
        IF gen.outcome = "ok" /\ rendered.outcome = "ok" /\ fname.outcome = "ok"
        THEN fname.name ELSE NoneStr,
     outcome |->
        IF gen.outcome # "ok" THEN gen.outcome
        ELSE IF rendered.outcome # "ok" THEN rendered.outcome
        ELSE fname.outcome]

\* render_pattern once the URI is generated: the dispatch and its check.
RenderUriOf(route, param_set, language_code, lang, gen, resp) ==
    RenderRecord(route, param_set, language_code, lang, gen, resp,
                 render_uri(gen.uri, route.staticsite_status_codes,
                            resp.nstatus, resp.status),
                 generate_filename(route.staticsite_filename, gen.uri, param_set))

\* render_pattern once the language is activated, with the URI at hand.
RenderGenerated(route, param_set, language_code, lang, gen) ==
    RenderUriOf(route, param_set, language_code, lang, gen,
                internal_wsgi_request(route, gen.uri, lang))

\* The part of render_pattern after the language was activated, run on a
\* thread whose active language is lang.
render_pattern(route, param_set, language_code, lang) ==
    RenderGenerated(route, param_set, language_code, lang,
                    generate_uri(route.staticsite_namespace, route.name,
                                 param_set, lang))

(***************************************************************************)
(* utils.get_langs: the languages every route is rendered in.              *)
(***************************************************************************)
LangRank(l) == IF l = "en" THEN 1 ELSE 2

\* sorted(langs): insertion of each element in order.
RECURSIVE Insert(_, _)
Insert(l, sorted) ==
    IF sorted = <<>> THEN <<l>>
    ELSE IF LangRank(l) <= LangRank(Head(sorted)) THEN <<l>> \o sorted
    ELSE <<Head(sorted)>> \o Insert(l, Tail(sorted))

RECURSIVE Sorted(_)
Sorted(langs) ==
    IF langs = <<>> THEN <<>> ELSE Insert(Head(langs), Sorted(Tail(langs)))

InSeq(x, seq) == \E i \in 1..Len(seq) : seq[i] = x

\* settings.LANGUAGES is the global default (is_global) or a list of codes;
\* settings.STATICSITE_LANGUAGES is a list of codes.
get_langs(settings) ==
    LET langs1 == IF ~settings.languages_is_global THEN settings.LANGUAGES ELSE <<>>
        langs2 == IF ~InSeq(LANGUAGE_CODE, settings.STATICSITE_LANGUAGES)
                     /\ ~InSeq(LANGUAGE_CODE, langs1)
                  THEN langs1 \o <<LANGUAGE_CODE>> ELSE langs1
    IN  Sorted(langs2 \o settings.STATICSITE_LANGUAGES)

SettingsChoices ==
    [languages_is_global : {TRUE}, LANGUAGES : {<<>>},
     STATICSITE_LANGUAGES : {<<>>, <<"fr">>}]
    \cup [languages_is_global : {FALSE}, LANGUAGES : {<<"en">>},
          STATICSITE_LANGUAGES : {<<"en">>}]

(***************************************************************************)
(* renderer.write_file on a file system: the files with their content and  *)
(* the directories, as paths.                                              *)
(***************************************************************************)
EmptyFs == [files |-> <<>>, dirs |-> {output_dir}]

Parent(path) ==
    [anchor |-> path.anchor, parts |-> SubSeq(path.parts, 1, Len(path.parts) - 1)]

\* path and its ancestors down to the anchor.
Ancestors(path) ==
    {[anchor |-> path.anchor, parts |-> SubSeq(path.parts, 1, n)] :
        n \in 0..Len(path.parts)}

IsFile(disk, path) == \E i \in 1..Len(disk.files) : disk.files[i].path = path

\* The files with path's content set: an existing file is truncated and
\* rewritten, a new one is added.
PutFile(files, path, content) ==
    IF \E i \in 1..Len(files) : files[i].path = path
    THEN [i \in 1..Len(files) |->
            IF files[i].path = path
            THEN [path |-> path, content |-> content] ELSE files[i]]
    ELSE Append(files, [path |-> path, content |-> content])

\* write_file(full_path, content): [outcome, fs].  The outcome is "ok", the
\* StaticSiteError raised for EISDIR, or the OSError that is re-raised.
write_file(disk, full_path, content) ==
    LET parent == Parent(full_path)
        need_mkdir == parent \notin disk.dirs
        mkdir_error ==
            IF ~need_mkdir THEN "ok"
            ELSE IF IsFile(disk, parent) THEN "FileExistsError"
            ELSE IF \E a \in Ancestors(parent) : IsFile(disk, a)
            THEN "NotADirectoryError"
            ELSE "ok"
        dirs1 == IF need_mkdir /\ mkdir_error = "ok"
                 THEN disk.dirs \cup Ancestors(parent) ELSE disk.dirs
    IN  IF mkdir_error # "ok" THEN [outcome |-> mkdir_error, fs |-> disk]
        ELSE IF full_path \in dirs1
        THEN [outcome |-> "StaticSiteError", fs |-> [disk EXCEPT !.dirs = dirs1]]
        ELSE [outcome |-> "ok",
              fs |-> [files |-> PutFile(disk.files, full_path, content),
                      dirs |-> dirs1]]

(***************************************************************************)
(* StaticSiteRenderer.render_to_directory: the calling thread, the worker  *)
(* threads of the ThreadPoolExecutor and the output directory.             *)
(***************************************************************************)
Langs == get_langs(cfg.settings)

Workers == 1..cfg.concurrency

\* get_urls_to_render for the routes from position n on, run on a thread
\* whose active language is lang: [outcome, items].
RECURSIVE get_urls_to_render(_, _, _)
get_urls_to_render(urls, n, lang) ==
    IF n > Len(urls) THEN [outcome |-> "ok", items |-> <<>>]
    ELSE LET url == Routes[urls[n]]
             ex == ExpandParams(url.staticsite_urls_generator.raises,
                                url.staticsite_urls_generator.v)
             uris == [i \in 1..Len(ex.param_sets) |->
                        generate_uri(url.staticsite_namespace, url.name,
                                     ex.param_sets[i], lang)]
             rest == get_urls_to_render(urls, n + 1, lang)
         IN  IF ex.outcome # "ok" THEN [outcome |-> ex.outcome, items |-> <<>>]
             ELSE IF \E i \in 1..Len(uris) : uris[i].outcome # "ok"
             THEN [outcome |-> "NoReverseMatch", items |-> <<>>]
             ELSE IF rest.outcome # "ok" THEN rest
             ELSE [outcome |-> "ok",
                   items |-> [i \in 1..Len(ex.param_sets) |->
                                [route |-> url.name, param_set |-> ex.param_sets[i]]]
                             \o rest.items]

\* django.utils.translation.activate(language) called on thread t, as a
\* process-wide switch: the mutant of ActivateLang.
ActivateLang_ProcessWide(act, t, language) ==
    [u \in DOMAIN act |-> language]

\* django.utils.translation.activate(language) called on thread t.
ActivateLang(act, t, language) ==
    [act EXCEPT ![t] = language]

Idle == [state |-> "idle", item |-> 0, k |-> 0, acc |-> <<>>]

Pending == [state |-> "pending", renders |-> <<>>, error |-> "none"]

\* The calling thread and the output directory before render_to_directory.
RenderStart(c) ==
    /\ cfg = c
    /\ main = [pc |-> "start", i |-> 1, j |-> 1, error |-> "none"]
    /\ to_render = <<>>
    /\ futures = <<>>
    /\ pool = [w \in 1..c.concurrency |-> Idle]
    /\ active = [t \in 0..c.concurrency |-> NoLang]
    /\ fs = EmptyFs
    /\ writes = <<>>
    /\ dispatched = <<>>
    /\ remote = NoRemote

RECURSIVE SeqsOfDistinct(_, _)
SeqsOfDistinct(S, n) ==
    IF n = 0 THEN {<<>>}
    ELSE LET shorter == SeqsOfDistinct(S, n - 1)
         IN  shorter \cup {Append(q, x) : q \in {t \in shorter : Len(t) = n - 1},
                                          x \in S}

UrlLists ==
    {q \in SeqsOfDistinct(RouteNames, MaxRoutes) :
        /\ q # <<>>
        /\ \A i, j \in 1..Len(q) : i # j => q[i] # q[j]}

RunConfigs ==
    [urls : UrlLists, settings : SettingsChoices, concurrency : 1..MaxConcurrency]

InitRender ==
    /\ call = [op |-> "none", done |-> TRUE]
    /\ \E c \in RunConfigs : RenderStart(c)

\* render(): the executor is created, get_urls_to_render() runs on the
\* calling thread and executor.map submits every item.
StartRender ==
    /\ main.pc = "start"
    /\ LET r == get_urls_to_render(cfg.urls, 1, active[0])
       IN  IF r.outcome # "ok"
           THEN /\ main' = [main EXCEPT !.pc = "failed", !.error = r.outcome]
                /\ UNCHANGED <<to_render, futures, dispatched, remote>>
           ELSE /\ main' = [main EXCEPT !.pc = "results"]
                /\ to_render' = r.items
                /\ futures' = [i \in 1..Len(r.items) |-> Pending]
                /\ dispatched' = [t \in (1..Len(r.items)) \X LangCodes |-> 0]
    /\ UNCHANGED <<call, cfg, pool, active, fs, writes, remote>>

\* A worker thread takes the oldest queued item and enters _render(item).
Take(w) ==
    /\ pool[w].state = "idle"
    /\ \E i \in 1..Len(futures) :
        /\ futures[i].state = "pending"
        /\ \A h \in 1..(i - 1) : futures[h].state # "pending"
        /\ futures' = [futures EXCEPT ![i].state = "running"]
        /\ pool' = [pool EXCEPT ![w] = [state |-> "activate", item |-> i,
                                        k |-> 1, acc |-> <<>>]]
    /\ UNCHANGED <<call, cfg, main, to_render, active, fs, writes, dispatched, remote>>

\* render_pattern, first half: if language_code: activate_lang(language_code).
Activate(w) ==
    /\ pool[w].state = "activate"
    /\ active' = IF Langs[pool[w].k] # ""
                 THEN ActivateLang(active, w, Langs[pool[w].k])
                 ELSE active
    /\ pool' = [pool EXCEPT ![w].state = "render"]
    /\ UNCHANGED <<call, cfg, main, to_render, futures, fs, writes, dispatched, remote>>

\* _render's loop after render_pattern gave r for language k of item i: it
\* goes on to the next language, returns its list, or raises.
RenderedBy(w, i, k, r) ==
    /\ dispatched' = IF r.outcome = "NoReverseMatch" THEN dispatched
                     ELSE [dispatched EXCEPT ![<<i, Langs[k]>>] = @ + 1]
    /\ IF r.outcome # "ok"
       THEN /\ futures' = [futures EXCEPT ![i] =
                             [state |-> "failed", renders |-> <<>>,
                              error |-> r.outcome]]
            /\ pool' = [pool EXCEPT ![w] = Idle]
       ELSE IF k = Len(Langs)
       THEN /\ futures' = [futures EXCEPT ![i] =
                             [state |-> "done",
                              renders |-> Append(pool[w].acc, r),
                              error |-> "none"]]
            /\ pool' = [pool EXCEPT ![w] = Idle]
       ELSE /\ futures' = futures
            /\ pool' = [pool EXCEPT ![w] = [state |-> "activate", item |-> i,
                                            k |-> k + 1,
                                            acc |-> Append(pool[w].acc, r)]]

\* render_pattern, second half: generate_uri, render_uri, generate_filename
\* under the worker's active language.
Render(w) ==
    /\ pool[w].state = "render"
    /\ RenderedBy(w, pool[w].item, pool[w].k,
                  render_pattern(Routes[to_render[pool[w].item].route],
                                 to_render[pool[w].item].param_set,
                                 Langs[pool[w].k], active[w]))
    /\ UNCHANGED <<call, cfg, main, to_render, active, fs, writes, remote>>

\* The positions of the results the calling thread may take next: the mutant
\* takes any finished result at or after its position, skipping the others.
NextResults_AnyFinished ==
    {i \in main.i..Len(futures) : futures[i].state \in {"done", "failed"}}

\* executor.map yields the results in submission order: the calling thread
\* waits for the result at its position.
NextResults == {main.i} \cap (1..Len(futures))

\* render_to_directory's loop body for one render of the result at hand:
\* get_static_filepath and write_file.
WriteRender ==
    /\ main.pc = "results"
    /\ \E i \in NextResults :
        /\ futures[i].state = "done"
        /\ LET render == futures[i].renders[main.j]
               path == get_static_filepath(output_dir, render.generated_filename,
                                           render.generated_uri)
               w == write_file(fs, path, render.body)
           IN  /\ fs' = w.fs
               /\ writes' = Append(writes,
                                   [path |-> path, outcome |-> w.outcome, item |-> i,
                                    task |-> <<render.route, render.param_set,
                                               render.language_code>>])
               /\ main' = IF w.outcome # "ok"
                          THEN [main EXCEPT !.pc = "failed", !.error = w.outcome, !.i = i]
                          ELSE IF main.j < Len(futures[i].renders)
                          THEN [main EXCEPT !.i = i, !.j = main.j + 1]
                          ELSE [main EXCEPT !.i = i + 1, !.j = 1]
    /\ UNCHANGED <<call, cfg, to_render, futures, pool, active, dispatched, remote>>

\* The mutant of RaiseResult: a failed result is dropped and the loop goes on
\* with the next one.
RaiseResult_SkipFailed ==
    /\ main.pc = "results"
    /\ \E i \in NextResults :
        /\ futures[i].state = "failed"
        /\ main' = [main EXCEPT !.i = i + 1, !.j = 1]
    /\ UNCHANGED <<call, cfg, to_render, futures, pool, active, fs, writes, dispatched, remote>>

\* The result at hand raises: the exception leaves render_to_directory, and
\* the result iterator cancels the futures that have not started.
RaiseResult ==
    /\ main.pc = "results"
    /\ \E i \in NextResults :
        /\ futures[i].state = "failed"
        /\ main' = [main EXCEPT !.pc = "failed", !.error = futures[i].error, !.i = i]
    /\ futures' = [i \in 1..Len(futures) |->
                     IF futures[i].state = "pending"
                     THEN [futures[i] EXCEPT !.state = "cancelled"]
                     ELSE futures[i]]
    /\ UNCHANGED <<call, cfg, to_render, pool, active, fs, writes, dispatched, remote>>

\* Every result was written: render_to_directory returns.
Finish ==
    /\ main.pc = "results"
    /\ main.i > Len(futures)
    /\ main' = [main EXCEPT !.pc = "done"]
    /\ UNCHANGED <<call, cfg, to_render, futures, pool, active, fs, writes, dispatched, remote>>

NextRender ==
    \/ StartRender
    \/ \E w \in Workers : Take(w)
    \/ \E w \in Workers : Activate(w)
    \/ \E w \in Workers : Render(w)
    \/ WriteRender
    \/ RaiseResult
    \/ Finish

SpecRender == InitRender /\ [][NextRender]_vars

\* One path is a proper path-prefix of the other.
DirFileCollision(p, q) == StrictlyBelow(p, q) \/ StrictlyBelow(q, p)

\* C3: whenever the output paths of two writes of one run collide as
\* directory versus file, the second of the two writes fails with the
\* descriptive StaticSite error and the run aborts, whichever of the two
\* paths was written first.
C3_CollisionIsDescriptive ==
    \A j \in 1..Len(writes) :
        (\E i \in 1..(j - 1) :
            /\ writes[i].outcome = "ok"
            /\ DirFileCollision(writes[i].path, writes[j].path)) =>
                writes[j].outcome = "StaticSiteError"

\* The renders of one item for the languages from position k on, each under
\* its own language, as one thread produces them: [outcome, renders].
RECURSIVE SequentialRenders(_, _)
SequentialRenders(item, k) ==
    IF k > Len(Langs) THEN [outcome |-> "ok", renders |-> <<>>]
    ELSE LET r == render_pattern(Routes[item.route], item.param_set,
                                 Langs[k], Langs[k])
         IN  IF r.outcome # "ok" THEN [outcome |-> r.outcome, renders |-> <<>>]
             ELSE LET rest == SequentialRenders(item, k + 1)
                  IN  IF rest.outcome # "ok" THEN rest
                      ELSE [outcome |-> "ok", renders |-> <<r>> \o rest.renders]

\* The renders from position j on written one after the other: [outcome, fs].
RECURSIVE SequentialWrites(_, _, _)
SequentialWrites(disk, renders, j) ==
    IF j > Len(renders) THEN [outcome |-> "ok", fs |-> disk]
    ELSE LET w == write_file(disk,
                             get_static_filepath(output_dir,
                                                 renders[j].generated_filename,
                                                 renders[j].generated_uri),
                             renders[j].body)
         IN  IF w.outcome # "ok" THEN w
             ELSE SequentialWrites(w.fs, renders, j + 1)

\* The items from position i on rendered and written strictly one after the
\* other: [error, fs].
RECURSIVE SequentialRun(_, _, _)
SequentialRun(items, i, disk) ==
    IF i > Len(items) THEN [error |-> "none", fs |-> disk]
    ELSE LET rs == SequentialRenders(items[i], 1)
         IN  IF rs.outcome # "ok" THEN [error |-> rs.outcome, fs |-> disk]
             ELSE LET w == SequentialWrites(disk, rs.renders, 1)
                  IN  IF w.outcome # "ok" THEN [error |-> w.outcome, fs |-> w.fs]
                      ELSE SequentialRun(items, i + 1, w.fs)

\* What the run of the configuration gives without any concurrency.
SequentialOutcome ==
    LET r == get_urls_to_render(cfg.urls, 1, NoLang)
    IN  IF r.outcome # "ok" THEN [error |-> r.outcome, fs |-> EmptyFs]
        ELSE SequentialRun(r.items, 1, EmptyFs)

FileSet(disk) == {disk.files[n] : n \in 1..Len(disk.files)}

\* C4: for every route list, language list and concurrency, and under every
\* interleaving of the workers, render_to_directory ends with the same set
\* of files with the same contents, or the same failure, as the sequential
\* run.
C4_SameAsSequential ==
    main.pc \in {"done", "failed"} =>
        /\ FileSet(fs) = FileSet(SequentialOutcome.fs)
        /\ main.error = SequentialOutcome.error

\* A run with more than one worker and more than one item has ended with
\* more than one file.
C4_Witness ==
    /\ main.pc = "done"
    /\ cfg.concurrency >= 2
    /\ Len(to_render) >= 2
    /\ Len(fs.files) >= 2

\* C5: under any interleaving, every render's URI resolution and dispatch
\* observe the language of its own (route, paramSet, language) triple: a
\* worker about to render has its own task's language active, and every
\* render made was resolved and dispatched in its own language.
C5_OwnLanguageObserved ==
    /\ \A w \in Workers :
        pool[w].state = "render" => EffectiveLang(active[w]) = Langs[pool[w].k]
    /\ \A w \in Workers : \A n \in 1..Len(pool[w].acc) :
        /\ pool[w].acc[n].uri_lang = pool[w].acc[n].language_code
        /\ pool[w].acc[n].body.lang = pool[w].acc[n].language_code
    /\ \A i \in 1..Len(futures) : \A n \in 1..Len(futures[i].renders) :
        /\ futures[i].renders[n].uri_lang = futures[i].renders[n].language_code
        /\ futures[i].renders[n].body.lang = futures[i].renders[n].language_code

\* Two workers are about to render at the same time, each in another
\* language.
C5_Witness ==
    \E v, w \in Workers :
        /\ pool[v].state = "render" /\ pool[w].state = "render"
        /\ Langs[pool[v].k] # Langs[pool[w].k]
        /\ active[v] # active[w]

\* C7 as stated: as soon as one render task has failed, no file of any
\* other task is written any more.
C7_NoWriteAfterTaskFailure ==
    [][(\E i \in 1..Len(futures) : futures[i].state = "failed") => fs' = fs]_vars

\* C7, amended: the call raises when the calling thread, taking the results
\* in submission order, reaches the first failed task, or when a write
\* fails.  No file of the failed item or of an item submitted after it is
\* ever written, and once the call has raised the output directory and
\* every file in it stay as they are.
C7_FailFastInOrder ==
    [][/\ writes' # writes =>
            /\ main.pc = "results"
            /\ \A h \in 1..writes'[Len(writes')].item : futures[h].state # "failed"
       /\ fs' # fs => writes' # writes
       /\ main.pc = "failed" => (fs' = fs /\ main' = main)
       /\ (main.pc = "results" /\ main'.pc = "failed") =>
            \/ /\ futures[main.i].state = "failed"
               /\ main'.error = futures[main.i].error
               /\ \A h \in 1..(main.i - 1) : futures[h].state = "done"
            \/ /\ writes' # writes
               /\ writes'[Len(writes')].outcome # "ok"
               /\ main'.error = writes'[Len(writes')].outcome]_vars

\* The call has raised for a failed task and files written before are there.
C7_Witness ==
    /\ main.pc = "failed"
    /\ fs.files # <<>>
    /\ \E i \in 1..Len(futures) :
        futures[i].state = "failed" /\ main.error = futures[i].error

\* C8: no two distinct tasks (route, paramSet, language) of one run write
\* to the same path.
C8_DisjointPaths ==
    \A i, j \in 1..Len(writes) :
        (/\ i < j
         /\ writes[i].outcome = "ok" /\ writes[j].outcome = "ok"
         /\ writes[i].task # writes[j].task) =>
            writes[i].path # writes[j].path

\* C9: every (route, paramSet, language) triple is dispatched at most once
\* at any time, and exactly once when the run has ended without failure.
C9_EachTripleOnce ==
    /\ \A t \in DOMAIN dispatched : dispatched[t] <= 1
    /\ main.pc = "done" =>
        \A t \in DOMAIN dispatched :
            dispatched[t] = (IF InSeq(t[2], Langs) THEN 1 ELSE 0)

(***************************************************************************)
(* renderer.write_single_pattern, called several times by one thread.      *)
(***************************************************************************)
SingleParamSets == {PTuple(<<>>), PTuple(<<<<"b">>>>)}

\* A thread that has activated no language, before its first call.
InitSingle ==
    /\ call = [op |-> "write_single_pattern",
               args |-> [pattern_name |-> "", param_set |-> PTuple(<<>>),
                         language_code |-> ""],
               done |-> FALSE, result |-> NoResult]
    /\ cfg = [urls |-> <<>>, concurrency |-> 0]
    /\ main = [pc |-> "single", i |-> 1, j |-> 1, error |-> "none"]
    /\ to_render = <<>>
    /\ futures = <<>>
    /\ pool = <<>>
    /\ active = [t \in {0} |-> NoLang]
    /\ fs = EmptyFs
    /\ writes = <<>>
    /\ dispatched = <<>>
    /\ remote = NoRemote

\* write_single_pattern after render_pattern gave r with the languages act
\* active: get_static_filepath and write_file, or the exception.
SingleWrite(args, act, r, w) ==
    /\ active' = act
    /\ fs' = IF r.outcome = "ok" THEN w.fs ELSE fs
    /\ writes' = IF r.outcome # "ok" THEN writes
                 ELSE Append(writes,
                             [path |-> get_static_filepath(output_dir,
                                                           r.generated_filename,
                                                           r.generated_uri),
                              outcome |-> w.outcome, item |-> main.i,
                              task |-> <<r.route, r.param_set, r.language_code>>])
    /\ main' = [main EXCEPT !.i = main.i + 1,
                            !.error = IF r.outcome = "ok" THEN w.outcome
                                      ELSE r.outcome]
    /\ call' = [op |-> "write_single_pattern", args |-> args, done |-> TRUE,
                result |-> [outcome |-> IF r.outcome = "ok" THEN w.outcome
                                        ELSE r.outcome,
                            uri_lang |-> r.uri_lang,
                            body_lang |-> r.body.lang,
                            lang_before |-> active[0],
                            lang_after |-> act[0]]]

\* write_single_pattern once render_pattern has activated its language.
SingleRender(args, act, r) ==
    SingleWrite(args, act, r,
                write_file(fs,
                           get_static_filepath(output_dir, r.generated_filename,
                                               r.generated_uri),
                           r.body))

\* write_single_pattern(file_path, pattern_name, *args, language_code=..) on
\* the calling thread; language_code "" stands for None.
WriteSinglePattern ==
    /\ main.pc = "single"
    /\ main.i <= MaxCalls
    /\ \E n \in RouteNames, param_set \in SingleParamSets,
          language_code \in {""} \cup LangCodes :
        SingleRender([pattern_name |-> n, param_set |-> param_set,
                      language_code |-> language_code],
                     IF language_code # ""
                     THEN ActivateLang(active, 0, language_code) ELSE active,
                     render_pattern(Routes[n], param_set, language_code,
                                    IF language_code # ""
                                    THEN language_code ELSE active[0]))
    /\ UNCHANGED <<cfg, to_render, futures, pool, dispatched, remote>>

NextSingle == WriteSinglePattern

SpecSingle == InitSingle /\ [][NextSingle]_vars

\* C6: the language a render activates lasts for that render only: after the
\* call the thread's active language is what it was before, and a render
\* that is given no language is made in the thread's own language, not in
\* one an earlier render left behind.
C6_LanguageRestored ==
    (call.op = "write_single_pattern" /\ call.done) =>
        /\ EffectiveLang(call.result.lang_after)
              = EffectiveLang(call.result.lang_before)
        /\ call.args.language_code = "" =>
              /\ call.result.uri_lang = LANGUAGE_CODE
              /\ call.result.body_lang = LANGUAGE_CODE

(***************************************************************************)
(* renderer.render_redirects: one page for every record of the redirects   *)
(* table.  The atoms of an old path are "/", "..", a name and the          *)
(* extensions ".html" and ".HTML".                                         *)
(***************************************************************************)
\* str.lstrip(ch).
RECURSIVE Lstrip(_, _)
Lstrip(s, ch) ==
    IF s # <<>> /\ Head(s) = ch THEN Lstrip(Tail(s), ch) ELSE s

\* str.lower() of one atom.
LowerAtom(c) == IF c = ".HTML" THEN ".html" ELSE c

\* s.lower().endswith(".html").
LowerEndsWithHtml(s) == s # <<>> /\ LowerAtom(s[Len(s)]) = ".html"

\* str(path) of a relative path: its parts joined by the separator.
RECURSIVE PathToStr(_)
PathToStr(parts) ==
    IF parts = <<>> THEN <<>>
    ELSE IF Len(parts) = 1 THEN Head(parts)
    ELSE Head(parts) \o <<os_sep>> \o PathToStr(Tail(parts))

\* render_static_redirect(destination_url): the document, by what it holds.
render_static_redirect(destination_url) ==
    [doctype |-> "html", charset |-> "UTF-8",
     refresh_delay |-> 0, refresh_url |-> destination_url,
     title_url |-> destination_url, robots |-> "noindex",
     heading_href |-> destination_url, link_href |-> destination_url]

\* The file render_redirects names for one record.
redirect_file(old_path) ==
    IF LowerEndsWithHtml(Lstrip(old_path, "/"))
    THEN Lstrip(old_path, "/")
    ELSE PathToStr(PathParts(Lstrip(old_path, "/"), <<>>) \o <<<<"index.html">>>>)

OldPathChars == {"/", "..", "a", ".html", ".HTML"}

\* Redirect.old_path: an absolute path, one leading "/".
OldPaths ==
    {<<"/">> \o b :
        b \in {q \in UNION {[1..n -> OldPathChars] : n \in 0..MaxOldPathLen} :
                  q = <<>> \/ q[1] # "/"}}

NewPaths == {<<"/", "b">>, <<"/", "c">>}

\* Redirect.objects.all().
RedirectTables ==
    UNION {[1..n -> [old_path : OldPaths, new_path : NewPaths]] :
             n \in 0..MaxRedirects}

InitRedirects ==
    /\ call = [op |-> "none", done |-> TRUE]
    /\ \E table \in RedirectTables :
        cfg = [urls |-> <<>>, concurrency |-> 0, redirects |-> table]
    /\ main = [pc |-> "redirects", i |-> 1, j |-> 1, error |-> "none"]
    /\ to_render = <<>>
    /\ futures = <<>>
    /\ pool = <<>>
    /\ active = <<>>
    /\ fs = EmptyFs
    /\ writes = <<>>
    /\ dispatched = <<>>
    /\ remote = NoRemote

\* The write of one record's page, w being what write_file gives.
RedirectWritten(path, content, w) ==
    /\ fs' = w.fs
    /\ writes' = Append(writes, [path |-> path, outcome |-> w.outcome,
                                 item |-> main.i, content |-> content])
    /\ main' = IF w.outcome = "ok" THEN [main EXCEPT !.i = main.i + 1]
               ELSE [main EXCEPT !.pc = "failed", !.error = w.outcome]

\* render_redirects' loop body for the record at hand.
RenderRedirect ==
    /\ main.pc = "redirects"
    /\ main.i <= Len(cfg.redirects)
    /\ RedirectWritten(
          get_static_filepath(output_dir,
                              OptStr(FALSE, redirect_file(cfg.redirects[main.i].old_path)),
                              redirect_file(cfg.redirects[main.i].old_path)),
          render_static_redirect(cfg.redirects[main.i].new_path),
          write_file(fs,
                     get_static_filepath(output_dir,
                                         OptStr(FALSE, redirect_file(cfg.redirects[main.i].old_path)),
                                         redirect_file(cfg.redirects[main.i].old_path)),
                     render_static_redirect(cfg.redirects[main.i].new_path)))
    /\ UNCHANGED <<call, cfg, to_render, futures, pool, active, dispatched, remote>>

\* Every record was written: render_redirects returns True.
RedirectsDone ==
    /\ main.pc = "redirects"
    /\ main.i > Len(cfg.redirects)
    /\ main' = [main EXCEPT !.pc = "done"]
    /\ UNCHANGED <<call, cfg, to_render, futures, pool, active, fs, writes, dispatched, remote>>

NextRedirects == RenderRedirect \/ RedirectsDone

SpecRedirects == InitRedirects /\ [][NextRedirects]_vars

\* The number of ".." parts never exceeds the number of parts before them:
\* the path below dir does not leave dir.
StaysBelow(path, dir) ==
    /\ StrictlyBelow(path, dir)
    /\ \A n \in (Len(dir.parts) + 1)..Len(path.parts) :
          2 * Cardinality({m \in (Len(dir.parts) + 1)..n : path.parts[m] = <<"..">>})
            <= n - Len(dir.parts)

\* C14: for every redirect record handled, exactly one file is written
\* under the output root: oldPath without its leading "/" if oldPath ends
\* in ".html", oldPath/index.html otherwise; its content is the redirect
\* document for newPath.
C14_RedirectFile ==
    \A k \in 1..Len(cfg.redirects) :
        (main.pc = "done" \/ k < main.i \/ (main.pc = "failed" /\ k = main.i)) =>
            LET old == cfg.redirects[k].old_path
                mine == {n \in 1..Len(writes) : writes[n].item = k}
                expected == IF old[Len(old)] = ".html"
                            THEN JoinPath(output_dir, Tail(old))
                            ELSE JoinPath(JoinPath(output_dir, Tail(old)),
                                          <<"index.html">>)
            IN  /\ Cardinality(mine) = 1
                /\ \A n \in mine :
                    /\ writes[n].outcome = "ok"
                    /\ writes[n].path = expected
                    /\ StaysBelow(writes[n].path, output_dir)
                    /\ writes[n].content.refresh_delay = 0
                    /\ writes[n].content.refresh_url = cfg.redirects[k].new_path
                    /\ writes[n].content.robots = "noindex"
                    /\ writes[n].content.link_href = cfg.redirects[k].new_path

\* ------------------------------------------------------------------------
\* The publish subcommand: command_publish and the publisher it drives.

MaxFiles == 2

\* The md5 digests that tell contents apart.
Hashes == {"h1", "h2"}

\* The files render_to_directory leaves in the temporary directory, by
\* name, with the digest of their content.
LocalFiles == [f \in 1..MaxFiles |-> "h1"]

\* What the remote target holds before the run; name 0 is a file the site
\* does not have.
RemoteStores == UNION {[S -> Hashes] : S \in SUBSET (0..MaxFiles)}

\* What STATICSITE_PUBLISHING_TARGETS[target] and its ENGINE give:
\* no such target, no ENGINE key, an ENGINE that fails to import, an ENGINE
\* whose import is a plain module, an ENGINE whose import is an object that
\* can be called with (source_dir, options).
TargetKinds == {"undefined", "no_engine", "unimportable", "module", "callable"}

PublishOptions ==
    [target : TargetKinds,
     required_options : BOOLEAN,
     collectstatic : BOOLEAN,
     exclude_staticfiles : BOOLEAN,
     generate_redirects : BOOLEAN]

\* get_publisher: import_module's second argument is the anchor package of
\* a relative import, so the value returned is the imported module itself.
get_publisher(target) ==
    IF target = "unimportable" THEN [raises |-> "ImportError"]
    ELSE [raises |-> "none", callable |-> target = "callable"]

get_publisher_from_options(target) ==
    IF target = "no_engine" THEN [raises |-> "StaticSitePublishError"]
    ELSE get_publisher(target)

get_publishing_target(target) ==
    IF target = "undefined" THEN [raises |-> "StaticSitePublishError"]
    ELSE [raises |-> "none"]

\* load_target: either failure becomes a CommandError.
load_target(target) ==
    IF get_publishing_target(target).raises # "none"
    THEN [raises |-> "CommandError"]
    ELSE IF get_publisher_from_options(target).raises # "none"
    THEN [raises |-> "CommandError"]
    ELSE get_publisher_from_options(target)

InitPublish ==
    /\ call = [op |-> "none", done |-> TRUE]
    /\ cfg \in PublishOptions
    /\ main = [pc |-> "load_target", error |-> "none", at |-> "none",
               confirmed |-> FALSE, constructed |-> FALSE,
               authenticated |-> "none", local |-> <<>>, todo |-> <<>>]
    /\ to_render = <<>>
    /\ futures = <<>>
    /\ pool = <<>>
    /\ active = <<>>
    /\ fs = EmptyFs
    /\ writes = <<>>
    /\ dispatched = <<>>
    /\ \E store \in RemoteStores : remote = [files |-> store, calls |-> <<>>]

\* The run ends with exception e raised by step.
PublishFailed(e, step) == [main EXCEPT !.pc = "failed", !.error = e, !.at = step]

PublishUnchanged ==
    UNCHANGED <<call, cfg, to_render, futures, pool, active, fs, writes, dispatched>>

\* command_publish, line 214.
LoadTarget ==
    /\ main.pc = "load_target"
    /\ main' = IF load_target(cfg.target).raises # "none"
               THEN PublishFailed("CommandError", "load_target")
               ELSE [main EXCEPT !.pc = "collectstatic"]
    /\ UNCHANGED remote
    /\ PublishUnchanged

\* run_collectstatic when asked for, then the STATIC_ROOT test.
CollectStatic ==
    /\ main.pc = "collectstatic"
    /\ \E collected \in BOOLEAN, is_dir \in BOOLEAN :
        main' = IF cfg.collectstatic /\ ~collected
                THEN PublishFailed("CommandError", "collectstatic")
                ELSE IF ~cfg.exclude_staticfiles /\ ~is_dir
                THEN PublishFailed("CommandError", "static_root")
                ELSE [main EXCEPT !.pc = "ask_question"]
    /\ UNCHANGED remote
    /\ PublishUnchanged

\* options.get("force") or ask_question(); a refusal ends the command
\* normally.
AskQuestion ==
    /\ main.pc = "ask_question"
    /\ \E force \in BOOLEAN, answer \in BOOLEAN :
        main' = IF force \/ answer
                THEN [main EXCEPT !.pc = "generate", !.confirmed = TRUE]
                ELSE [main EXCEPT !.pc = "cancelled"]
    /\ UNCHANGED remote
    /\ PublishUnchanged

\* render_to_directory(tmpdirpath); its errors leave command_publish as
\* they are.
Generate ==
    /\ main.pc = "generate"
    /\ \E rendered \in BOOLEAN :
        main' = IF rendered
                THEN [main EXCEPT !.pc = "copy_static", !.local = LocalFiles]
                ELSE PublishFailed("StaticSiteError", "generate")
    /\ UNCHANGED remote
    /\ PublishUnchanged

\* copy_static_and_media_files(tmpdirpath) unless excluded.
CopyStatic ==
    /\ main.pc = "copy_static"
    /\ \E copied \in BOOLEAN :
        main' = IF ~cfg.exclude_staticfiles /\ ~copied
                THEN PublishFailed("StaticSiteError", "copy_static")
                ELSE [main EXCEPT !.pc = "redirects"]
    /\ UNCHANGED remote
    /\ PublishUnchanged

\* render_redirects(tmpdirpath) when asked for.
GenerateRedirects ==
    /\ main.pc = "redirects"
    /\ \E written \in BOOLEAN :
        main' = IF cfg.generate_redirects /\ ~written
                THEN PublishFailed("OSError", "redirects")
                ELSE [main EXCEPT !.pc = "construct"]
    /\ UNCHANGED remote
    /\ PublishUnchanged

\* The option keys the backends name in REQUIRED_OPTIONS.
OptionKeys == {"PUBLIC_URL", "ENGINE", "BUCKET"}

\* PublisherBackendBase.REQUIRED_OPTIONS.
REQUIRED_OPTIONS == {"PUBLIC_URL"}

\* No backend object: __init__ raised.
NoPublisher == [source_dir |-> "none", options |-> {}]

\* validate_options with a key test that any one present key satisfies.
validate_options_AnyPresent(required, options) ==
    IF required # {} /\ required \cap options = {}
    THEN "StaticSitePublishError" ELSE "none"

\* PublisherBackendBase.validate_options: required and options are the
\* keys of REQUIRED_OPTIONS and of the option mapping.
validate_options(required, options) ==
    IF \E o \in required : o \notin options
    THEN "StaticSitePublishError" ELSE "none"

\* PublisherBackendBase.__init__: source_dir has the type of the argument
\* and what the file system holds at that path.
PublisherInit(source_dir, required, options) ==
    IF source_dir.type \notin {"str", "Path"}
    THEN [raises |-> "StaticSitePublishError", object |-> NoPublisher]
    ELSE IF source_dir.kind # "dir"
    THEN [raises |-> "StaticSitePublishError", object |-> NoPublisher]
    ELSE IF validate_options(required, options) # "none"
    THEN [raises |-> validate_options(required, options), object |-> NoPublisher]
    ELSE [raises |-> "none",
          object |-> [source_dir |-> source_dir.kind, options |-> options]]

\* tmpdirpath and target_options as command_publish passes them.
TmpDirPath == [type |-> "Path", kind |-> "dir"]

TargetOptions == IF cfg.required_options THEN REQUIRED_OPTIONS ELSE {}

\* publisher_class(tmpdirpath, target_options): what load_target returned
\* is called; the temporary directory exists.
Construct ==
    /\ main.pc = "construct"
    /\ main' = IF ~load_target(cfg.target).callable
               THEN PublishFailed("TypeError", "construct")
               ELSE IF PublisherInit(TmpDirPath, REQUIRED_OPTIONS, TargetOptions).raises
                         # "none"
               THEN PublishFailed(
                        PublisherInit(TmpDirPath, REQUIRED_OPTIONS, TargetOptions).raises,
                        "construct")
               ELSE [main EXCEPT !.pc = "authenticate", !.constructed = TRUE]
    /\ UNCHANGED remote
    /\ PublishUnchanged

\* publisher.authenticate(): the value it returns is not looked at.
Authenticate ==
    /\ main.pc = "authenticate"
    /\ \E r \in {"true", "false", "raise"} :
        main' = IF r = "raise"
                THEN [PublishFailed("StaticSitePublishError", "authenticate")
                        EXCEPT !.authenticated = r]
                ELSE [main EXCEPT !.pc = "publish", !.authenticated = r]
    /\ remote' = [remote EXCEPT !.calls = Append(@, [op |-> "authenticate"])]
    /\ PublishUnchanged

\* The names 1..n in order.
NamesTo(n) == [k \in 1..n |-> k]

\* compare_file: the remote object is there and its digest is the local one.
compare_file(local, store, f) == f \in DOMAIN store /\ store[f] = local[f]

\* The store after upload_file of f.
Uploaded(local, store, f) ==
    [g \in DOMAIN store \cup {f} |-> IF g = f THEN local[f] ELSE store[g]]

\* publisher.publish() begins: the local files are indexed and the remote
\* files listed.
PublishList ==
    /\ main.pc = "publish"
    /\ main' = [main EXCEPT !.pc = "upload", !.todo = NamesTo(MaxFiles)]
    /\ remote' = [remote EXCEPT !.calls = Append(@, [op |-> "list"])]
    /\ PublishUnchanged

\* The next local file: left alone when compare_file is true, uploaded and
\* verified otherwise.
PublishUpload ==
    /\ main.pc = "upload"
    /\ main.todo # <<>>
    /\ IF compare_file(main.local, remote.files, Head(main.todo))
       THEN /\ main' = [main EXCEPT !.todo = Tail(@)]
            /\ UNCHANGED remote
       ELSE \E uploaded \in BOOLEAN, verified \in BOOLEAN :
            /\ main' = IF ~uploaded
                       THEN PublishFailed("StaticSitePublishError", "upload")
                       ELSE IF ~verified
                       THEN PublishFailed("StaticSitePublishError", "verify")
                       ELSE [main EXCEPT !.todo = Tail(@)]
            /\ remote' =
                 [files |-> IF uploaded
                            THEN Uploaded(main.local, remote.files, Head(main.todo))
                            ELSE remote.files,
                  calls |-> Append(remote.calls,
                                   [op |-> "upload", name |-> Head(main.todo)])]
    /\ PublishUnchanged

\* A remote file the site does not have is deleted.
PublishDelete ==
    /\ main.pc = "upload"
    /\ main.todo = <<>>
    /\ \E f \in DOMAIN remote.files \ DOMAIN main.local :
        /\ \A g \in DOMAIN remote.files \ DOMAIN main.local : f <= g
        /\ remote' = [files |-> [g \in DOMAIN remote.files \ {f} |-> remote.files[g]],
                      calls |-> Append(remote.calls, [op |-> "delete", name |-> f])]
    /\ UNCHANGED main
    /\ PublishUnchanged

\* final_checks, then "Publishing static site complete."
PublishFinal ==
    /\ main.pc = "upload"
    /\ main.todo = <<>>
    /\ DOMAIN remote.files \subseteq DOMAIN main.local
    /\ \E checked \in BOOLEAN :
        main' = IF checked THEN [main EXCEPT !.pc = "done"]
                ELSE PublishFailed("StaticSitePublishError", "verify")
    /\ UNCHANGED remote
    /\ PublishUnchanged

NextPublish ==
    \/ LoadTarget
    \/ CollectStatic
    \/ AskQuestion
    \/ Generate
    \/ CopyStatic
    \/ GenerateRedirects
    \/ Construct
    \/ Authenticate
    \/ PublishList
    \/ PublishUpload
    \/ PublishDelete
    \/ PublishFinal

SpecPublish == InitPublish /\ [][NextPublish]_vars

\* The calls that change the remote target.
RemoteChanges == {k \in 1..Len(remote.calls) : remote.calls[k].op \in {"upload", "delete"}}

StepFailed ==
    \/ main.at \in {"generate", "copy_static", "redirects", "authenticate",
                    "upload", "verify"}
    \/ main.at = "construct" /\ main.error = "StaticSitePublishError"

\* C16: a confirmed or forced publish run that has ended is Done or Failed;
\* it is Failed only when one of its steps failed, and when it is Done every
\* local file that was absent from the remote target or different there has
\* been uploaded.
C16_DoneWhenAllSucceed ==
    main.confirmed =>
        /\ main.pc = "failed" => StepFailed
        /\ main.pc = "done" =>
              \A f \in DOMAIN main.local : compare_file(main.local, remote.files, f)

\* ------------------------------------------------------------------------
\* Construction of a publisher backend.

SourceDirs == [type : {"str", "Path", "other"}, kind : {"dir", "file", "missing"}]

InitConstruct ==
    /\ RenderIdle
    /\ \E source_dir \in SourceDirs, required \in SUBSET OptionKeys,
          options \in SUBSET OptionKeys :
        call = [op |-> "PublisherBackendBase",
                args |-> [source_dir |-> source_dir, required |-> required,
                          options |-> options],
                done |-> FALSE, result |-> NoResult]

CallConstruct ==
    /\ call.op = "PublisherBackendBase"
    /\ ~call.done
    /\ call' = [call EXCEPT
                  !.done = TRUE,
                  !.result = PublisherInit(call.args.source_dir, call.args.required,
                                           call.args.options)]
    /\ UNCHANGED renderVars

NextConstruct == CallConstruct

SpecConstruct == InitConstruct /\ [][NextConstruct]_vars

MaxUrlPathLen == 3
MaxRelParts == 2

\* The atoms of s before its first "/".
RECURSIVE UntilSlash(_)
UntilSlash(s) ==
    IF s = <<>> \/ Head(s) = "/" THEN <<>> ELSE <<Head(s)>> \o UntilSlash(Tail(s))

\* The atoms of s before its first "?".
RECURSIVE UntilQuery(_)
UntilQuery(s) ==
    IF s = <<>> \/ Head(s) = "?" THEN <<>> ELSE <<Head(s)>> \o UntilQuery(Tail(s))

\* urllib.parse.urlsplit for a URL without fragment.
urlsplit(url) ==
    IF Len(url) >= 2 /\ url[2] = "://"
    THEN LET rest == UntilQuery(SubSeq(url, 3, Len(url)))
             netloc == UntilSlash(rest)
         IN  [scheme |-> url[1], netloc |-> netloc,
              path |-> SubSeq(rest, Len(netloc) + 1, Len(rest))]
    ELSE [scheme |-> "", netloc |-> <<>>, path |-> UntilQuery(url)]

\* urllib.parse.urlunsplit((scheme, netloc, url, "", "")).
urlunsplit(scheme, netloc, url) ==
    LET withNetloc == IF netloc # <<>>
                      THEN netloc \o (IF url # <<>> /\ Head(url) # "/"
                                      THEN <<"/">> \o url ELSE url)
                      ELSE url
    IN  IF scheme # "" THEN <<scheme, "://">> \o withNetloc ELSE withNetloc

\* The source directory of the publisher.
source_dir == [anchor |-> "/", parts |-> << <<"src">> >>]

\* pathlib's is_relative_to, a comparison of parts.
is_relative_to(path, dir) ==
    /\ path.anchor = dir.anchor
    /\ Len(path.parts) >= Len(dir.parts)
    /\ SubSeq(path.parts, 1, Len(dir.parts)) = dir.parts

\* pathlib's relative_to for a path that is_relative_to dir: the parts left.
relative_to(path, dir) == SubSeq(path.parts, Len(dir.parts) + 1, Len(path.parts))

\* PublisherBackendBase.remote_path: str(Path("/") / relative) with the
\* separators turned into "/".
remote_path(local_name) ==
    IF ~is_relative_to(local_name, source_dir)
    THEN [raises |-> "ValueError", path |-> <<>>]
    ELSE [raises |-> "none",
          path |-> Replace(<<"/">> \o PathToStr(relative_to(local_name, source_dir)),
                           os_sep, "/")]

\* PublisherBackendBase.generate_remote_url of a backend constructed with
\* PUBLIC_URL = public_url.
generate_remote_url(public_url, local_name) ==
    IF ~is_relative_to(local_name, source_dir)
    THEN [raises |-> "StaticSitePublishError", url |-> <<>>]
    ELSE LET remote_url_parts == urlsplit(public_url)
             remote_path_prefix ==
                 IF remote_url_parts.path # <<>> /\ Head(remote_url_parts.path) = "/"
                 THEN Tail(remote_url_parts.path)
                 ELSE remote_url_parts.path
         IN  [raises |-> "none",
              url |-> urlunsplit(remote_url_parts.scheme, remote_url_parts.netloc,
                                 remote_path_prefix \o remote_path(local_name).path)]

\* The path components of PUBLIC_URL: "", "/", "/sub", "/sub/", ...
UrlPaths ==
    UNION {{p \in [1..n -> {"/", "sub"}] : \A i \in 1..n : (p[i] = "/") <=> (i % 2 = 1)}
           : n \in 0..MaxUrlPathLen}

PublicUrls ==
    {<<scheme, "://", host>> \o p :
        scheme \in {"http", "https"}, host \in {"host", "cdn"}, p \in UrlPaths}

\* Files in directories below the source directory.
RelParts ==
    UNION {[1..n -> {<<"d">>, <<"a.html">>}] : n \in 1..MaxRelParts}

\* Local files inside the source directory and outside it.
LocalNames ==
    {[anchor |-> "/", parts |-> source_dir.parts \o rel] : rel \in RelParts}
        \cup {[anchor |-> "/", parts |-> << <<"other">> >> \o rel] : rel \in RelParts}

InitRemoteUrl ==
    /\ RenderIdle
    /\ \E public_url \in PublicUrls, local_name \in LocalNames :
        call = [op |-> "generate_remote_url",
                args |-> [public_url |-> public_url, local_name |-> local_name],
                done |-> FALSE, result |-> NoResult]

CallRemoteUrl ==
    /\ call.op = "generate_remote_url"
    /\ ~call.done
    /\ call' = [call EXCEPT
                  !.done = TRUE,
                  !.result = [url |-> generate_remote_url(call.args.public_url,
                                                          call.args.local_name),
                              remote_path |-> remote_path(call.args.local_name)]]
    /\ UNCHANGED renderVars

NextRemoteUrl == CallRemoteUrl

SpecRemoteUrl == InitRemoteUrl /\ [][NextRemoteUrl]_vars

\* C18: for a file inside the source directory generate_remote_url is
\* PUBLIC_URL followed by the file's path relative to the source directory,
\* joined by exactly one "/" whether or not PUBLIC_URL ends in "/", and
\* remote_path is that relative path after one leading "/"; for a file
\* outside the source directory generate_remote_url raises
\* StaticSitePublishError.
C18_RemoteUrl ==
    (call.op = "generate_remote_url" /\ call.done) =>
        LET a == call.args
            rel == PathToStr(relative_to(a.local_name, source_dir))
            prefix == IF a.public_url[Len(a.public_url)] = "/"
                      THEN a.public_url ELSE a.public_url \o <<"/">>
        IN  IF is_relative_to(a.local_name, source_dir)
            THEN /\ call.result.url.raises = "none"
                 /\ call.result.url.url = prefix \o rel
                 /\ call.result.remote_path.raises = "none"
                 /\ call.result.remote_path.path = <<"/">> \o rel
            ELSE call.result.url.raises = "StaticSitePublishError"

\* ------------------------------------------------------------------------
\* Verification of an uploaded file by fetching its URL.

\* What the file system holds at local_name: no file, or a file by the
\* digest of its content.
LocalContents == {"missing"} \cup Hashes

\* What the server at the URL's host answers: a status and the digest of
\* the body.
Responses == [status : {200, 404}, body : Hashes]

CheckUrls ==
    {<<scheme, "://", host>> \o p :
        scheme \in {"http", "https", "ftp"}, host \in {"host", "cdn"}, p \in UrlPaths}

\* The host names a connection can be opened to.
HostNames == {<<"host">>, <<"cdn">>}

\* PublisherBackendBase.get_local_file_hash.
get_local_file_hash(content) ==
    IF content = "missing"
    THEN [raises |-> "StaticSitePublishError", value |-> "none"]
    ELSE [raises |-> "none", value |-> content]

\* http.client: connection.request() on a connection made for host; a
\* host that is no host name cannot be resolved.
HttpRequest(host, response) ==
    IF host \in HostNames THEN [raises |-> "none", response |-> response]
    ELSE [raises |-> "gaierror", response |-> response]

\* PublisherBackendBase.get_url_hash: the connection is made with the
\* whole URL, token included, as its host.
get_url_hash(url, response) ==
    LET busted == url \o <<"?", "token">>
        url_parts == urlsplit(busted)
    IN  IF url_parts.scheme \notin {"http", "https"}
        THEN [raises |-> "StaticSitePublishError", value |-> "none"]
        ELSE IF HttpRequest(busted, response).raises # "none"
        THEN [raises |-> HttpRequest(busted, response).raises, value |-> "none"]
        ELSE IF response.status = 404
        THEN [raises |-> "none", value |-> "False"]
        ELSE [raises |-> "none", value |-> response.body]

\* PublisherBackendBase.check_file.
check_file(content, url, response) ==
    IF content = "missing"
    THEN [raises |-> "StaticSitePublishError", value |-> FALSE]
    ELSE IF get_url_hash(url, response).raises # "none"
    THEN [raises |-> get_url_hash(url, response).raises, value |-> FALSE]
    ELSE [raises |-> "none",
          value |-> get_local_file_hash(content).value
                        = get_url_hash(url, response).value]

InitCheckFile ==
    /\ RenderIdle
    /\ \E content \in LocalContents, url \in CheckUrls, response \in Responses :
        call = [op |-> "check_file",
                args |-> [content |-> content, url |-> url, response |-> response],
                done |-> FALSE, result |-> NoResult]

CallCheckFile ==
    /\ call.op = "check_file"
    /\ ~call.done
    /\ call' = [call EXCEPT
                  !.done = TRUE,
                  !.result = check_file(call.args.content, call.args.url,
                                        call.args.response)]
    /\ UNCHANGED renderVars

NextCheckFile == CallCheckFile

SpecCheckFile == InitCheckFile /\ [][NextCheckFile]_vars

\* C19: check_file raises StaticSitePublishError when the local file is
\* missing or the URL's scheme is neither http nor https; otherwise it
\* returns false when the server answers 404, and else true exactly when
\* the digest of the local file is the digest of the body.
C19_CheckFile ==
    (call.op = "check_file" /\ call.done) =>
        LET a == call.args
        IN  IF a.content = "missing" \/ a.url[1] \notin {"http", "https"}
            THEN call.result.raises = "StaticSitePublishError"
            ELSE /\ call.result.raises = "none"
                 /\ a.response.status = 404 => call.result.value = FALSE
                 /\ a.response.status # 404 =>
                        call.result.value = (a.content = a.response.body)

\* ------------------------------------------------------------------------
\* compare_file and upload_file of the three backends.  A hex digest is the
\* string <<h>>, the raw digest is [raw |-> h], its base64 form is
\* [b64 |-> [raw |-> h]] and an S3 ETag is the hex digest in double quotes.

Backends == {"google_storage", "amazon_s3", "microsoft_azure_storage"}

\* binascii.hexlify(raw).decode().
hexlify(bytes) == <<bytes.raw>>

\* base64.b64decode.
b64decode(text) == text.b64

\* No metadata digest on the object.
NoMd5 == [raw |-> "none"]

\* What the store keeps for an object uploaded with content of digest h:
\* Google's md5_hash, the ETag of an S3 object put in one part, Azure's
\* content_md5, which the service may or may not have.
StoredObject(backend, h, has_md5) ==
    IF backend = "google_storage" THEN [md5_hash |-> [b64 |-> [raw |-> h]]]
    ELSE IF backend = "amazon_s3" THEN [ETag |-> <<"\"", h, "\"">>]
    ELSE [content_md5 |-> IF has_md5 THEN [raw |-> h] ELSE NoMd5]

\* The methods PublisherBackendBase gives its subclasses.
BaseMethods == {"get_local_file_hash", "get_url_hash", "file_exists"}

\* self.<method>(content) on a backend: AttributeError for a name the
\* class does not have.
LocalHashVia(method, content) ==
    IF method \notin BaseMethods
    THEN [raises |-> "AttributeError", value |-> <<>>]
    ELSE [raises |-> get_local_file_hash(content).raises,
          value |-> <<get_local_file_hash(content).value>>]

\* GoogleCloudStorageBackend.compare_file.
GoogleCompareFile(content, b) ==
    IF LocalHashVia("get_local_file_hash", content).raises # "none"
    THEN [raises |-> LocalHashVia("get_local_file_hash", content).raises,
          value |-> FALSE]
    ELSE [raises |-> "none",
          value |-> LocalHashVia("get_local_file_hash", content).value
                        = hexlify(b64decode(b.md5_hash))]

\* AmazonS3Backend.compare_file.
S3CompareFile(content, obj) ==
    IF LocalHashVia("_get_local_file_hash", content).raises # "none"
    THEN [raises |-> LocalHashVia("_get_local_file_hash", content).raises,
          value |-> FALSE]
    ELSE [raises |-> "none",
          value |-> LocalHashVia("_get_local_file_hash", content).value
                        = SubSeq(obj.ETag, 2, Len(obj.ETag) - 1)]

\* AzureBlobStorateBackend.compare_file.
AzureCompareFile(content, properties) ==
    IF properties.content_md5 = NoMd5
    THEN [raises |-> "none", value |-> FALSE]
    ELSE IF LocalHashVia("_get_local_file_hash", content).raises # "none"
    THEN [raises |-> LocalHashVia("_get_local_file_hash", content).raises,
          value |-> FALSE]
    ELSE [raises |-> "none",
          value |-> LocalHashVia("_get_local_file_hash", content).value
                        = hexlify(properties.content_md5)]

BackendCompareFile(backend, content, object) ==
    IF backend = "google_storage" THEN GoogleCompareFile(content, object)
    ELSE IF backend = "amazon_s3" THEN S3CompareFile(content, object)
    ELSE AzureCompareFile(content, object)

\* A backend after authenticate(), local files with their content and an
\* empty remote store.
InitBackend ==
    /\ call = [op |-> "none", done |-> TRUE]
    /\ \E backend \in Backends :
        cfg = [urls |-> <<>>, concurrency |-> 0, backend |-> backend]
    /\ \E local \in [1..MaxFiles -> Hashes] :
        main = [pc |-> "backend", i |-> 1, j |-> 1, error |-> "none",
                local |-> local, uploaded |-> <<>>]
    /\ to_render = <<>>
    /\ futures = <<>>
    /\ pool = <<>>
    /\ active = <<>>
    /\ fs = EmptyFs
    /\ writes = <<>>
    /\ dispatched = <<>>
    /\ remote = NoRemote

BackendUnchanged ==
    UNCHANGED <<cfg, to_render, futures, pool, active, fs, writes, dispatched>>

\* The function g with x mapped to v.
With(g, x, v) == [y \in DOMAIN g \cup {x} |-> IF y = x THEN v ELSE g[y]]

\* upload_file(local_name, remote_name) succeeds: the store holds the
\* object; main.uploaded remembers the digest of what was sent.
UploadFile ==
    /\ main.pc = "backend"
    /\ \E f \in 1..MaxFiles, has_md5 \in BOOLEAN :
        /\ remote' = [remote EXCEPT
                        !.files = With(@, f, StoredObject(cfg.backend, main.local[f],
                                                          has_md5))]
        /\ main' = [main EXCEPT !.uploaded = With(@, f, main.local[f])]
        /\ call' = [op |-> "upload_file", name |-> f, done |-> TRUE]
    /\ BackendUnchanged

\* The content of a local file changes.
ModifyLocal ==
    /\ main.pc = "backend"
    /\ \E f \in 1..MaxFiles, h \in Hashes :
        /\ h # main.local[f]
        /\ main' = [main EXCEPT !.local[f] = h]
        /\ call' = [op |-> "modify", name |-> f, done |-> TRUE]
    /\ UNCHANGED remote
    /\ BackendUnchanged

\* compare_file(local_name, remote_name) for an object the store holds.
CompareFile ==
    /\ main.pc = "backend"
    /\ \E f \in DOMAIN remote.files :
        call' = [op |-> "compare_file", name |-> f, done |-> TRUE,
                 result |-> BackendCompareFile(cfg.backend, main.local[f],
                                               remote.files[f])]
    /\ UNCHANGED <<main, remote>>
    /\ BackendUnchanged

NextBackend == UploadFile \/ ModifyLocal \/ CompareFile

SpecBackend == InitBackend /\ [][NextBackend]_vars

\* C20: with every backend, compare_file of an uploaded file returns a
\* boolean: true when the local content is what was uploaded, false when
\* it has been changed since.
C20_CompareAfterUpload ==
    call.op = "compare_file" =>
        /\ call.result.raises = "none"
        /\ call.result.value = (main.local[call.name] = main.uploaded[call.name])

\* ------------------------------------------------------------------------
\* The Azure backend: uploads are remembered and verified by final_checks.

\* value.decode("utf-8"): bytes have the method, a str has not.
Decode(value) ==
    IF value.type = "bytes" THEN [raises |-> "none", text |-> value.text]
    ELSE [raises |-> "AttributeError", text |-> <<>>]

\* AzureBlobStorateBackend._get_blob_url for the blob called name, with
\* PUBLIC_URL = public_url: urlunsplit of str parts is a str.
get_blob_url(public_url, name) ==
    Decode([type |-> "str",
            text |-> urlunsplit(urlsplit(public_url).scheme,
                                urlsplit(public_url).netloc, <<"/", name>>)])

InitAzure ==
    /\ call = [op |-> "none", done |-> TRUE]
    /\ \E public_url \in {<<"https", "://", "host">>, <<"https", "://", "host", "/">>} :
        cfg = [urls |-> <<>>, concurrency |-> 0,
               backend |-> "microsoft_azure_storage", public_url |-> public_url]
    /\ \E local \in [1..MaxFiles -> Hashes] :
        main = [pc |-> "azure", i |-> 1, j |-> 1, error |-> "none",
                local |-> local, azure_uploads_to_check |-> <<>>]
    /\ to_render = <<>>
    /\ futures = <<>>
    /\ pool = <<>>
    /\ active = <<>>
    /\ fs = EmptyFs
    /\ writes = <<>>
    /\ dispatched = <<>>
    /\ remote = NoRemote

\* upload_file(local_name, remote_name): result is what upload_blob
\* returned; the entry is appended after _get_blob_url.
AzureUploadFile ==
    /\ main.pc = "azure"
    /\ \E f \in 1..MaxFiles, result \in BOOLEAN, has_md5 \in BOOLEAN :
        /\ remote' = IF result
                     THEN [remote EXCEPT
                             !.files = With(@, f, StoredObject(cfg.backend,
                                                               main.local[f], has_md5))]
                     ELSE remote
        /\ main' = IF result /\ get_blob_url(cfg.public_url, f).raises = "none"
                   THEN [main EXCEPT !.azure_uploads_to_check =
                            Append(@, <<f, f, get_blob_url(cfg.public_url, f).text>>)]
                   ELSE main
        /\ call' = [op |-> "upload_file", name |-> f, done |-> TRUE,
                    uploaded |-> result,
                    result |-> IF result
                               THEN [raises |-> get_blob_url(cfg.public_url, f).raises,
                                     value |-> result]
                               ELSE [raises |-> "none", value |-> result]]
    /\ BackendUnchanged

\* check_file(local_name, url): "do nothing here".
AzureCheckFile ==
    /\ main.pc = "azure"
    /\ \E f \in 1..MaxFiles :
        call' = [op |-> "check_file", name |-> f, done |-> TRUE, uploaded |-> FALSE,
                 result |-> [raises |-> "none", value |-> TRUE]]
    /\ UNCHANGED <<main, remote>>
    /\ BackendUnchanged

\* final_checks: _check_file for every remembered upload, which begins with
\* self._get_local_file_hash(local_name); True when none raised.
AzureFinalChecks ==
    /\ main.pc = "azure"
    /\ call' = [op |-> "final_checks", name |-> 0, done |-> TRUE, uploaded |-> FALSE,
                result |->
                  IF main.azure_uploads_to_check = <<>>
                  THEN [raises |-> "none", value |-> TRUE]
                  ELSE [raises |->
                          LocalHashVia("_get_local_file_hash",
                                       main.local[main.azure_uploads_to_check[1][1]]).raises,
                        value |-> FALSE]]
    /\ UNCHANGED <<main, remote>>
    /\ BackendUnchanged

NextAzure == AzureUploadFile \/ AzureCheckFile \/ AzureFinalChecks

SpecAzure == InitAzure /\ [][NextAzure]_vars

\* C21: with the Azure backend, upload_file and check_file fetch no URL; an
\* upload_file whose upload succeeded returns and has added exactly one
\* entry for the file, a failed one has added none; final_checks returns
\* true only when every uploaded file is among the entries it verified.
C21_DeferredVerification ==
    /\ remote.calls = <<>>
    /\ (call.op = "upload_file" /\ call.uploaded) =>
          /\ call.result.raises = "none"
          /\ Cardinality({k \in 1..Len(main.azure_uploads_to_check) :
                            main.azure_uploads_to_check[k][1] = call.name}) >= 1
    /\ (call.op = "final_checks" /\ call.result.raises = "none" /\ call.result.value) =>
          \A f \in DOMAIN remote.files :
              \E k \in 1..Len(main.azure_uploads_to_check) :
                  main.azure_uploads_to_check[k][1] = f

\* ------------------------------------------------------------------------
\* AzureBlobStorateBackend._check_file: the verification loop of one
\* uploaded file.

MaxAttempts == 3

\* 30 in the class; the loop is the same for every positive value.
RETRY_ATTEMPTS == MaxAttempts

SLEEP_BETWEEN_RETRIES == 3

\* What _get_url_hash finds at the public URL on one attempt: nothing
\* (404, a false value), other content, the content of the local file.
UrlAnswers == {"absent", "different", "same"}

\* cfg.helpers tells whether the base class of the backend has the methods
\* _get_local_file_hash and _get_url_hash that _check_file calls; the class
\* of staticsite/publisher.py has not.
InitVerify ==
    /\ call = [op |-> "none", done |-> TRUE]
    /\ \E helpers \in BOOLEAN, f \in 1..MaxFiles, h \in Hashes :
        cfg = [urls |-> <<>>, concurrency |-> 0, helpers |-> helpers,
               local_name |-> f, content |-> h,
               actual_url |-> <<"https", "://", "host", "/", f>>]
    /\ main = [pc |-> "start", i |-> 0, j |-> 1, error |-> "none",
               value |-> FALSE, attempts |-> 0]
    /\ to_render = <<>>
    /\ futures = <<>>
    /\ pool = <<>>
    /\ active = <<>>
    /\ fs = EmptyFs
    /\ writes = <<>>
    /\ dispatched = <<>>
    /\ remote = NoRemote

VerifyUnchanged ==
    UNCHANGED <<call, cfg, to_render, futures, pool, active, fs, writes, dispatched>>

\* local_hash = self._get_local_file_hash(local_name).
VerifyStart ==
    /\ main.pc = "start"
    /\ main' = IF cfg.helpers THEN [main EXCEPT !.pc = "loop"]
               ELSE [main EXCEPT
                       !.pc = "failed",
                       !.error = LocalHashVia("_get_local_file_hash", cfg.content).raises]
    /\ UNCHANGED remote
    /\ VerifyUnchanged

\* One pass of `for i in range(self.RETRY_ATTEMPTS)`.
VerifyAttempt ==
    /\ main.pc = "loop"
    /\ main.i < RETRY_ATTEMPTS
    /\ \E answer \in UrlAnswers :
        /\ main' = IF answer = "same"
                   THEN [main EXCEPT !.pc = "done", !.value = TRUE]
                   ELSE [main EXCEPT !.i = @ + 1]
        /\ remote' = [remote EXCEPT !.calls =
                        IF answer = "absent"
                        THEN @ \o <<[op |-> "fetch", answer |-> answer],
                                    [op |-> "sleep", seconds |-> SLEEP_BETWEEN_RETRIES]>>
                        ELSE Append(@, [op |-> "fetch", answer |-> answer])]
    /\ VerifyUnchanged

\* The loop ran out: StaticSitePublishError "... after {i + 1} attempts",
\* i being the last index.
VerifyExhausted ==
    /\ main.pc = "loop"
    /\ main.i = RETRY_ATTEMPTS
    /\ main' = [main EXCEPT !.pc = "failed", !.error = "StaticSitePublishError",
                            !.attempts = (main.i - 1) + 1]
    /\ UNCHANGED remote
    /\ VerifyUnchanged

NextVerify == VerifyStart \/ VerifyAttempt \/ VerifyExhausted

SpecVerify == InitVerify /\ [][NextVerify]_vars

\* The fetches of the public URL so far.
Fetches == {k \in 1..Len(remote.calls) : remote.calls[k].op = "fetch"}

\* C22: the verification of one file fetches the URL at most
\* RETRY_ATTEMPTS times; it returns true only on an attempt that found the
\* local content, and otherwise ends with StaticSitePublishError after
\* exactly RETRY_ATTEMPTS attempts.
C22_BoundedVerification ==
    /\ Cardinality(Fetches) <= RETRY_ATTEMPTS
    /\ main.pc = "done" =>
          /\ main.value
          /\ remote.calls[Len(remote.calls)].answer = "same"
    /\ main.pc = "failed" =>
          /\ main.error = "StaticSitePublishError"
          /\ main.attempts = RETRY_ATTEMPTS
          /\ Cardinality(Fetches) = RETRY_ATTEMPTS
          /\ \A k \in Fetches : remote.calls[k].answer # "same"

Probe == 0

InitTestTarget ==
    /\ call = [op |-> "none", done |-> TRUE]
    /\ \E target \in TargetKinds, required_options \in BOOLEAN, force \in BOOLEAN,
          h \in Hashes :
        cfg = [target |-> target, required_options |-> required_options,
               force |-> force, content |-> h]
    /\ main = [pc |-> "load_target", error |-> "none", at |-> "none",
               asked |-> FALSE, test_file |-> "none", verdict |-> "none"]
    /\ to_render = <<>>
    /\ futures = <<>>
    /\ pool = <<>>
    /\ active = <<>>
    /\ fs = EmptyFs
    /\ writes = <<>>
    /\ dispatched = <<>>
    /\ remote = NoRemote

\* command_test_target, line 267.
TestLoadTarget ==
    /\ main.pc = "load_target"
    /\ main' = IF load_target(cfg.target).raises # "none"
               THEN PublishFailed("CommandError", "load_target")
               ELSE [main EXCEPT !.pc = "ask_question"]
    /\ UNCHANGED remote
    /\ PublishUnchanged

\* `if ask_question():`, whatever --force says.
TestAskQuestion ==
    /\ main.pc = "ask_question"
    /\ \E answer \in BOOLEAN :
        main' = IF answer THEN [main EXCEPT !.pc = "create_test_file", !.asked = TRUE]
                ELSE [main EXCEPT !.pc = "cancelled", !.asked = TRUE]
    /\ UNCHANGED remote
    /\ PublishUnchanged

\* create_test_file(), then publisher_class(test_file.parent, target_options).
TestConstruct ==
    /\ main.pc = "create_test_file"
    /\ main' = IF ~load_target(cfg.target).callable
               THEN [PublishFailed("TypeError", "construct")
                       EXCEPT !.test_file = "exists"]
               ELSE IF PublisherInit(TmpDirPath, REQUIRED_OPTIONS, TargetOptions).raises
                         # "none"
               THEN [PublishFailed(
                        PublisherInit(TmpDirPath, REQUIRED_OPTIONS, TargetOptions).raises,
                        "construct")
                       EXCEPT !.test_file = "exists"]
               ELSE [main EXCEPT !.pc = "upload", !.test_file = "exists"]
    /\ UNCHANGED remote
    /\ PublishUnchanged

\* publisher.remote_url(test_file) and publisher.upload_test_file(test_file):
\* methods of the target's class, which the base class does not have.
TestUpload ==
    /\ main.pc = "upload"
    /\ \E outcome \in {"AttributeError", "StaticSitePublishError", "ok"} :
        /\ main' = IF outcome = "ok" THEN [main EXCEPT !.pc = "verify"]
                   ELSE PublishFailed(outcome, "upload")
        /\ remote' = IF outcome = "ok"
                     THEN [files |-> With(remote.files, Probe, cfg.content),
                           calls |-> Append(remote.calls, [op |-> "upload", name |-> Probe])]
                     ELSE remote
    /\ PublishUnchanged

\* get_local_file_hash, get_url_hash and the comparison; a difference is
\* written to stderr and the command goes on.
TestVerify ==
    /\ main.pc = "verify"
    /\ \E outcome \in {"OSError", "StaticSitePublishError", "same", "differs"} :
        main' = IF outcome \in {"same", "differs"}
                THEN [main EXCEPT !.pc = "cleanup", !.verdict = outcome]
                ELSE PublishFailed(outcome, "verify")
    /\ UNCHANGED remote
    /\ PublishUnchanged

\* publisher.delete_remote_file(remote_path), then test_file.unlink().
TestCleanup ==
    /\ main.pc = "cleanup"
    /\ \E deleted \in BOOLEAN :
        /\ main' = IF deleted THEN [main EXCEPT !.pc = "done", !.test_file = "deleted"]
                   ELSE PublishFailed("StaticSitePublishError", "cleanup")
        /\ remote' = IF deleted
                     THEN [files |-> [g \in DOMAIN remote.files \ {Probe} |-> remote.files[g]],
                           calls |-> Append(remote.calls, [op |-> "delete", name |-> Probe])]
                     ELSE remote
    /\ PublishUnchanged

NextTestTarget ==
    \/ TestLoadTarget
    \/ TestAskQuestion
    \/ TestConstruct
    \/ TestUpload
    \/ TestVerify
    \/ TestCleanup

SpecTestTarget == InitTestTarget /\ [][NextTestTarget]_vars

\* C24: when the test-target command has ended after creating its probe
\* file, the local probe file is deleted and the remote target holds no
\* probe, whether the hashes matched, differed, or a step failed.
C24_ScopedCleanup ==
    (main.pc \in {"done", "failed"} /\ main.test_file # "none") =>
        /\ main.test_file = "deleted"
        /\ Probe \notin DOMAIN remote.files

\* C25: with --force the test-target command asks no question and goes on
\* as if "yes" had been answered; without --force it goes on only after
\* the answer "yes", and any other answer cancels it before the probe file
\* is created and before any contact with the publishing target.
C25_ForceSkipsQuestion ==
    /\ cfg.force => ~main.asked
    /\ main.pc = "cancelled" => (main.test_file = "none" /\ remote.calls = <<>>)
    /\ (~cfg.force /\ main.test_file # "none") => main.asked

\* C26: every error that ends the publish command leaves it as a
\* CommandError, whichever step raised it.
C26_ErrorsAreCommandErrors ==
    main.pc = "failed" => main.error = "CommandError"

\* ------------------------------------------------------------------------
\* Static and media files in the generate and publish subcommands.  A
\* setting is None (Django's default for STATIC_URL and STATIC_ROOT), the
\* empty string, or a value; a root that has a value is a directory that
\* exists ("dir") or a path where there is none ("absent").

\* str(value): None becomes the non-empty string "None".
PyStr(value) == IF value = "None" THEN "None-str" ELSE value

\* Path(root).is_dir(): Path(None) is a TypeError, Path("") is ".".
PathIsDir(root) ==
    IF root = "None" THEN [raises |-> "TypeError", value |-> FALSE]
    ELSE [raises |-> "none", value |-> root \in {"", "dir"}]

\* One half of copy_static_and_media_files: what is copied and what is
\* logged for a URL and a root setting; walking a path that is no
\* directory yields nothing.
CopyHalf(url, root, level) ==
    IF PyStr(url) # "" /\ PyStr(root) # ""
    THEN [copied |-> PyStr(root) = "dir", log |-> <<>>]
    ELSE [copied |-> FALSE, log |-> <<level>>]

InitStatic ==
    /\ call = [op |-> "none", done |-> TRUE]
    /\ \E subcommand \in {"generate", "publish"}, exclude_staticfiles \in BOOLEAN,
          static_url \in {"None", "", "/static/"},
          static_root \in {"None", "", "dir", "absent"},
          media_url \in {"", "/media/"}, media_root \in {"", "dir", "absent"} :
        cfg = [subcommand |-> subcommand, exclude_staticfiles |-> exclude_staticfiles,
               STATIC_URL |-> static_url, STATIC_ROOT |-> static_root,
               MEDIA_URL |-> media_url, MEDIA_ROOT |-> media_root]
    /\ main = [pc |-> "static_root", error |-> "none", at |-> "none",
               pages |-> <<>>, static |-> FALSE, media |-> FALSE, log |-> <<>>]
    /\ to_render = <<>>
    /\ futures = <<>>
    /\ pool = <<>>
    /\ active = <<>>
    /\ fs = EmptyFs
    /\ writes = <<>>
    /\ dispatched = <<>>
    /\ remote = NoRemote

\* `if not exclude_staticfiles and not Path(settings.STATIC_ROOT).is_dir():
\* raise CommandError(...)`.
StaticRootTest ==
    /\ main.pc = "static_root"
    /\ main' = IF cfg.exclude_staticfiles THEN [main EXCEPT !.pc = "render"]
               ELSE IF PathIsDir(cfg.STATIC_ROOT).raises # "none"
               THEN PublishFailed(PathIsDir(cfg.STATIC_ROOT).raises, "static_root")
               ELSE IF ~PathIsDir(cfg.STATIC_ROOT).value
               THEN PublishFailed("CommandError", "static_root")
               ELSE [main EXCEPT !.pc = "render"]
    /\ UNCHANGED remote
    /\ PublishUnchanged

\* render_to_directory writes the pages.
StaticRender ==
    /\ main.pc = "render"
    /\ main' = [main EXCEPT !.pc = "copy", !.pages = LocalFiles]
    /\ UNCHANGED remote
    /\ PublishUnchanged

\* copy_static_and_media_files(output_dir) unless excluded.
CopyStaticAndMedia ==
    /\ main.pc = "copy"
    /\ main' = IF cfg.exclude_staticfiles THEN [main EXCEPT !.pc = "done"]
               ELSE [main EXCEPT
                       !.pc = "done",
                       !.static = CopyHalf(cfg.STATIC_URL, cfg.STATIC_ROOT, "error").copied,
                       !.media = CopyHalf(cfg.MEDIA_URL, cfg.MEDIA_ROOT, "warning").copied,
                       !.log = CopyHalf(cfg.STATIC_URL, cfg.STATIC_ROOT, "error").log
                                 \o CopyHalf(cfg.MEDIA_URL, cfg.MEDIA_ROOT, "warning").log]
    /\ UNCHANGED remote
    /\ PublishUnchanged

NextStatic == StaticRootTest \/ StaticRender \/ CopyStaticAndMedia

SpecStatic == InitStatic /\ [][NextStatic]_vars

\* C27: whatever the static and media settings are, the run is not
\* aborted; when it is done the pages are all written, and a static or
\* media setting that is empty has been logged.
C27_MissingRootsOnlyWarn ==
    /\ main.pc # "failed"
    /\ main.pc = "done" =>
          /\ main.pages = LocalFiles
          /\ (~cfg.exclude_staticfiles /\ (cfg.STATIC_URL = "" \/ cfg.STATIC_ROOT = ""))
                => \E k \in 1..Len(main.log) : main.log[k] = "error"
          /\ (~cfg.exclude_staticfiles /\ (cfg.MEDIA_URL = "" \/ cfg.MEDIA_ROOT = ""))
                => \E k \in 1..Len(main.log) : main.log[k] = "warning"

\* ------------------------------------------------------------------------
\* StaticSiteRenderer as a context manager.  cfg holds the values of
\* settings.DEBUG and settings.ALLOWED_HOSTS before any renderer exists,
\* main.settings their current values, and active[r] the renderer r.

MaxRenderers == 2

Renderers == 1..MaxRenderers

NoRenderer == [state |-> "none", hostname |-> "None",
               _site_debug |-> FALSE, _site_allowed_hosts |-> <<>>]

InitContext ==
    /\ call = [op |-> "none", done |-> TRUE]
    /\ \E debug \in BOOLEAN, allowed_hosts \in {<<>>, <<"example.com">>} :
        /\ cfg = [DEBUG |-> debug, ALLOWED_HOSTS |-> allowed_hosts]
        /\ main = [settings |-> [DEBUG |-> debug, ALLOWED_HOSTS |-> allowed_hosts],
                   raised |-> FALSE]
    /\ active = [r \in Renderers |-> NoRenderer]
    /\ to_render = <<>>
    /\ futures = <<>>
    /\ pool = <<>>
    /\ fs = EmptyFs
    /\ writes = <<>>
    /\ dispatched = <<>>
    /\ remote = NoRemote

\* StaticSiteRenderer.__init__: the current settings are saved.
RendererInit ==
    /\ \E r \in Renderers, hostname \in {"None", "localhost"} :
        /\ active[r].state = "none"
        /\ active' = [active EXCEPT ![r] =
                        [state |-> "constructed", hostname |-> hostname,
                         _site_debug |-> main.settings.DEBUG,
                         _site_allowed_hosts |-> main.settings.ALLOWED_HOSTS]]
    /\ UNCHANGED <<call, cfg, main, to_render, futures, pool, fs, writes,
                   dispatched, remote>>

\* StaticSiteRenderer.__enter__.
RendererEnter ==
    /\ \E r \in Renderers :
        /\ active[r].state \in {"constructed", "exited"}
        /\ active' = [active EXCEPT ![r].state = "entered"]
        /\ main' = [main EXCEPT
                      !.settings = [DEBUG |-> TRUE,
                                    ALLOWED_HOSTS |->
                                       IF active[r].hostname # "None"
                                       THEN <<active[r].hostname>> ELSE <<"*">>]]
    /\ UNCHANGED <<call, cfg, to_render, futures, pool, fs, writes,
                   dispatched, remote>>

\* StaticSiteRenderer.__exit__, by return (raised = FALSE) or by an
\* error of the body (raised = TRUE), which it lets through.
RendererExit ==
    /\ \E r \in Renderers, raised \in BOOLEAN :
        /\ active[r].state = "entered"
        /\ active' = [active EXCEPT ![r].state = "exited"]
        /\ main' = [settings |-> [DEBUG |-> active[r]._site_debug,
                                  ALLOWED_HOSTS |-> active[r]._site_allowed_hosts],
                    raised |-> raised]
    /\ UNCHANGED <<call, cfg, to_render, futures, pool, fs, writes,
                   dispatched, remote>>

NextContext == RendererInit \/ RendererEnter \/ RendererExit

SpecContext == InitContext /\ [][NextContext]_vars

\* C28: whenever no renderer context is active, settings.DEBUG and
\* settings.ALLOWED_HOSTS have the values they had before the first
\* context was entered.
C28_SettingsRestored ==
    (\A r \in Renderers : active[r].state # "entered") => main.settings = cfg

\* ------------------------------------------------------------------------
\* iter_url_patterns over a URL configuration.  cfg.urlconf lists the
\* entries of the configuration in the order they are written, each with
\* the depth of the include it is written in; an entry is a URLPattern or
\* a URLResolver (an include) with a namespace or None.  A namespace is
\* an optional string, its parts joined by ":".

MaxNodes == 4

IncludeNamespaces == {NoneStr, OptStr(FALSE, <<"a">>), OptStr(FALSE, <<"b">>)}

\* The last entry of the subtree of entry i.
SubtreeEnd(urlconf, i) ==
    CHOOSE j \in i..Len(urlconf) :
        /\ \A k \in (i + 1)..j : urlconf[k].depth > urlconf[i].depth
        /\ j = Len(urlconf) \/ urlconf[j + 1].depth <= urlconf[i].depth

RECURSIVE ResolverPatterns(_, _, _)
\* The url_patterns list made of the entries lo..hi: URLPattern objects
\* (named by their position) and URLResolver objects with their own
\* url_patterns.
ResolverPatterns(urlconf, lo, hi) ==
    IF lo > hi THEN <<>>
    ELSE LET e == SubtreeEnd(urlconf, lo)
         IN  << IF urlconf[lo].kind = "URLPattern"
                THEN [kind |-> "URLPattern", name |-> lo]
                ELSE [kind |-> "URLResolver", namespace |-> urlconf[lo].namespace,
                      url_patterns |-> ResolverPatterns(urlconf, lo + 1, e)] >>
             \o ResolverPatterns(urlconf, e + 1, hi)

RECURSIVE IterFrom(_, _, _, _)
\* The loop of iter_url_patterns from the i-th element on; namespace is
\* the local variable, which the loop body assigns; None and "" are false.
IterFrom(patterns, i, namespace, depth) ==
    IF i > Len(patterns) THEN <<>>
    ELSE IF patterns[i].kind = "URLPattern"
    THEN LET ns == IF depth = 0 THEN NoneStr ELSE namespace
         IN  << <<patterns[i], ns, 1>> >> \o IterFrom(patterns, i + 1, ns, depth)
    ELSE LET ns == IF ~patterns[i].namespace.isNone /\ patterns[i].namespace.chars # <<>>
                   THEN IF ~namespace.isNone /\ namespace.chars # <<>>
                        THEN OptStr(FALSE, namespace.chars \o <<":">>
                                             \o patterns[i].namespace.chars)
                        ELSE patterns[i].namespace
                   ELSE NoneStr
         IN  IterFrom(patterns[i].url_patterns, 1, ns, depth + 1)
               \o IterFrom(patterns, i + 1, ns, depth)

\* iter_url_patterns(url_patterns, namespace, depth): the tuples yielded.
iter_url_patterns(patterns, namespace, depth) == IterFrom(patterns, 1, namespace, depth)

InitUrlconf ==
    /\ call = [op |-> "none", done |-> TRUE]
    /\ cfg = [urlconf |-> <<>>]
    /\ main = [pc |-> "urls", yielded |-> <<>>]
    /\ to_render = <<>>
    /\ futures = <<>>
    /\ pool = <<>>
    /\ active = <<>>
    /\ fs = EmptyFs
    /\ writes = <<>>
    /\ dispatched = <<>>
    /\ remote = NoRemote

\* The project's URL configuration gets one more path(...): a view, or an
\* include written at the top level or inside the include last written.
AddUrl ==
    /\ main.pc = "urls"
    /\ Len(cfg.urlconf) < MaxNodes
    /\ \E kind \in {"URLPattern", "URLResolver"}, namespace \in IncludeNamespaces,
          depth \in 0..Len(cfg.urlconf) :
        /\ kind = "URLPattern" => namespace = NoneStr
        /\ depth > 0 =>
              /\ depth <= cfg.urlconf[Len(cfg.urlconf)].depth + 1
              /\ depth = cfg.urlconf[Len(cfg.urlconf)].depth + 1
                    => cfg.urlconf[Len(cfg.urlconf)].kind = "URLResolver"
        /\ cfg' = [urlconf |-> Append(cfg.urlconf,
                                  [kind |-> kind, namespace |-> namespace, depth |-> depth])]
    /\ UNCHANGED <<call, main, to_render, futures, pool, active, fs, writes,
                   dispatched, remote>>

\* list(iter_url_patterns()) on the configuration.
IterUrlPatterns ==
    /\ main.pc = "urls"
    /\ main' = [pc |-> "done",
                yielded |-> iter_url_patterns(
                               ResolverPatterns(cfg.urlconf, 1, Len(cfg.urlconf)),
                               OptStr(FALSE, <<>>), 0)]
    /\ UNCHANGED <<call, cfg, to_render, futures, pool, active, fs, writes,
                   dispatched, remote>>

NextUrlconf == AddUrl \/ IterUrlPatterns

SpecUrlconf == InitUrlconf /\ [][NextUrlconf]_vars

\* The includes entry i is nested under, outermost first.
AncestorsOf(urlconf, i) ==
    [d \in 1..urlconf[i].depth |->
        CHOOSE k \in 1..(i - 1) :
            /\ urlconf[k].depth = d - 1
            /\ \A q \in (k + 1)..(i - 1) : urlconf[q].depth > d - 1]

RECURSIVE JoinNamespaces(_, _, _)
\* The namespaces of the named includes among the first n of anc, joined
\* by ":"; None when there is none.
JoinNamespaces(urlconf, anc, n) ==
    IF n = 0 THEN NoneStr
    ELSE LET rest == JoinNamespaces(urlconf, anc, n - 1)
             own == urlconf[anc[n]].namespace
         IN  IF own.isNone THEN rest
             ELSE IF rest.isNone THEN own
             ELSE OptStr(FALSE, rest.chars \o <<":">> \o own.chars)

\* C29: every URLPattern of the configuration is yielded exactly once, in
\* the order written, with the colon-joined namespaces of the named
\* includes it is nested under, or None when there are none.
C29_NamespaceFromAncestors ==
    main.pc = "done" =>
        LET pats == {i \in 1..Len(cfg.urlconf) : cfg.urlconf[i].kind = "URLPattern"}
        IN  /\ Len(main.yielded) = Cardinality(pats)
            /\ \A i \in pats : \E k \in 1..Len(main.yielded) : main.yielded[k][1].name = i
            /\ \A k \in 1..Len(main.yielded) :
                  main.yielded[k][2] =
                     JoinNamespaces(cfg.urlconf,
                                    AncestorsOf(cfg.urlconf, main.yielded[k][1].name),
                                    cfg.urlconf[main.yielded[k][1].name].depth)

\* ------------------------------------------------------------------------
\* The order of the writes of render_to_directory.

\* The renders the workers have returned for the tasks from position i on
\* in submission order, up to the first task that has not returned.
RECURSIVE RendersInOrder(_, _)
RendersInOrder(results, i) ==
    IF i > Len(results) \/ results[i].state # "done" THEN <<>>
    ELSE results[i].renders \o RendersInOrder(results, i + 1)

\* C30: for every concurrency the files are written by the calling thread
\* only, one at a time and in submission order: the files written so far
\* are the output of the first k tasks, k being the number of writes the
\* calling thread has done; the writes follow the submission order; and no
\* file of a task submitted after a failed task is written, rendered or not.
C30_WritesInSubmissionOrder ==
    LET k == Cardinality({n \in 1..Len(writes) : writes[n].outcome = "ok"})
        renders == RendersInOrder(futures, 1)
    IN  /\ k <= Len(renders)
        /\ k > 0 => main.pc \in {"results", "done", "failed"}
        /\ FileSet(fs) = FileSet(SequentialWrites(EmptyFs, SubSeq(renders, 1, k), 1).fs)
        /\ \A m, n \in 1..Len(writes) : m < n => writes[m].item <= writes[n].item
        /\ \A n \in 1..Len(writes) : \A h \in 1..Len(futures) :
              futures[h].state = "failed" => writes[n].item < h

\* With more than one worker, a task has failed, a task submitted after it
\* was rendered by a worker all the same, and the call has raised without
\* a file of the later task.
C30_Witness ==
    /\ cfg.concurrency >= 2
    /\ main.pc = "failed"
    /\ \E h, g \in 1..Len(futures) :
        /\ h < g
        /\ futures[h].state = "failed"
        /\ futures[g].state = "done"
        /\ futures[g].renders # <<>>

====
